---- MODULE Spec2Model ----
(***************************************************************************)
(* BookBridge OpenLibrary processor (src/bookbridge_processor.py) as a     *)
(* state machine: one step of the driver loop of process_file reads one    *)
(* line of the dump, parses it, routes it to its filter, and appends the   *)
(* accepted entity to its csv sink.                                        *)
(*                                                                         *)
(* Text is modelled character by character: a Python str is a sequence of  *)
(* one-character strings, so that strip, upper, the substring test `in`,   *)
(* join and the regular expression of extract_year are computed the way    *)
(* the code computes them.  The three code points of the mojibake marker   *)
(* of should_keep_work are written "u00EF", "u00BF", "u00BD"; "u00CF" is   *)
(* the upper case of "u00EF".                                              *)
(***************************************************************************)
EXTENDS Integers, Sequences, FiniteSets, TLC

VARIABLES
    stats,          \* self.stats, errors included
    kept_works,     \* keys of self.kept_works
    kept_editions,  \* keys of self.kept_editions
    kept_authors,   \* keys of self.kept_authors
    books,          \* rows of books.csv, header first
    editions,       \* rows of editions.csv, header first
    authors,        \* rows of authors.csv, header first
    book_authors,   \* rows of book_authors.csv, header first
    line,           \* the loop variable of process_file: the line last read
    pc,             \* "scan" inside the loop, "done" after the finally block
    rerun,          \* the state of a second run of the processor over the same file
    orphaned,       \* history: the work keys that an edition passing the edition
                    \* filter named while they were not in kept_works
    probe,          \* the argument and the result of a function applied on its own
    disk_full,      \* the environment: a write to a sink raises OSError
    open_files,     \* self.csv_files: the sinks that are open
    reported        \* print_final_stats has printed the statistics

----------------------------------------------------------------------------
(* Python values.                                                          *)

PyNone == [t |-> "none"]
PyStr(s) == [t |-> "str", s |-> s]
PyInt(n) == [t |-> "int", n |-> n]
PyBool(b) == [t |-> "bool", b |-> b]
PyList(xs) == [t |-> "list", xs |-> xs]
PyDict(d) == [t |-> "dict", d |-> d]

\* bool(v), the truth value `if v` and `not v` test
Truthy(v) ==
    CASE v.t = "none" -> FALSE
      [] v.t = "str" -> v.s # <<>>
      [] v.t = "int" -> v.n # 0
      [] v.t = "bool" -> v.b
      [] v.t = "list" -> v.xs # <<>>
      [] v.t = "dict" -> DOMAIN v.d # {}

\* d.get(k, default) of a dict d
Get(v, k, default) == IF k \in DOMAIN v.d THEN v.d[k] ELSE default

----------------------------------------------------------------------------
(* str methods.                                                            *)

LowerLetters ==
    <<"a","b","c","d","e","f","g","h","i","j","k","l","m",
      "n","o","p","q","r","s","t","u","v","w","x","y","z","u00EF">>
UpperLetters ==
    <<"A","B","C","D","E","F","G","H","I","J","K","L","M",
      "N","O","P","Q","R","S","T","U","V","W","X","Y","Z","u00CF">>
Digits == <<"0","1","2","3","4","5","6","7","8","9">>

IndexOf(seq, c) == CHOOSE i \in 1..Len(seq) : seq[i] = c
Has(seq, c) == \E i \in 1..Len(seq) : seq[i] = c

UpperChar(c) == IF Has(LowerLetters, c) THEN UpperLetters[IndexOf(LowerLetters, c)] ELSE c
LowerChar(c) == IF Has(UpperLetters, c) THEN LowerLetters[IndexOf(UpperLetters, c)] ELSE c
upper(s) == [i \in 1..Len(s) |-> UpperChar(s[i])]
lower(s) == [i \in 1..Len(s) |-> LowerChar(s[i])]

IsSpace(c) == c \in {" ", "\t", "\n"}
IsDigit(c) == Has(Digits, c)
\* [a-zA-Z]: the ASCII letters only
IsAsciiLetter(c) ==
    \E i \in 1..26 : c = LowerLetters[i] \/ c = UpperLetters[i]

\* s.strip()
strip(s) ==
    LET keep == {i \in 1..Len(s) : ~IsSpace(s[i])}
    IN  IF keep = {} THEN <<>>
        ELSE LET lo == CHOOSE i \in keep : \A j \in keep : i <= j
                 hi == CHOOSE i \in keep : \A j \in keep : j <= i
             IN  SubSeq(s, lo, hi)

\* pat in text
Contains(text, pat) ==
    \E i \in 0..(Len(text) - Len(pat)) : SubSeq(text, i + 1, i + Len(pat)) = pat

\* sep.join(items), items a sequence of str
RECURSIVE join(_, _)
join(sep, items) ==
    IF items = <<>> THEN <<>>
    ELSE IF Len(items) = 1 THEN items[1]
    ELSE items[1] \o sep \o join(sep, Tail(items))

\* s.replace(old, ''), old not empty
RECURSIVE remove(_, _)
remove(s, old) ==
    IF Len(s) < Len(old) THEN s
    ELSE IF SubSeq(s, 1, Len(old)) = old THEN remove(SubSeq(s, Len(old) + 1, Len(s)), old)
    ELSE <<s[1]>> \o remove(Tail(s), old)

\* int(s) of a run of decimal digits
RECURSIVE DigitsValue(_)
DigitsValue(s) ==
    IF s = <<>> THEN 0
    ELSE 10 * DigitsValue(SubSeq(s, 1, Len(s) - 1)) + (IndexOf(Digits, s[Len(s)]) - 1)

\* str(n) of an int n >= 0
RECURSIVE NatStr(_)
NatStr(n) ==
    IF n < 10 THEN <<Digits[n + 1]>>
    ELSE NatStr(n \div 10) \o <<Digits[(n % 10) + 1]>>

\* str(v)
str(v) ==
    CASE v.t = "str" -> v.s
      [] v.t = "int" -> IF v.n < 0 THEN <<"-">> \o NatStr(-v.n) ELSE NatStr(v.n)
      [] v.t = "none" -> <<"N","o","n","e">>
      [] v.t = "bool" -> IF v.b THEN <<"T","r","u","e">> ELSE <<"F","a","l","s","e">>

\* int(s): None stands for ValueError.  An optional sign, then digits.
int(s) ==
    LET t == strip(s)
        tb == IF t # <<>> /\ t[1] \in {"+", "-"} THEN Tail(t) ELSE t
    IN  IF tb # <<>> /\ \A i \in 1..Len(tb) : IsDigit(tb[i])
        THEN PyInt(IF t[1] = "-" THEN -DigitsValue(tb) ELSE DigitsValue(tb))
        ELSE PyNone

----------------------------------------------------------------------------
(* Exceptions: a raised exception is the value Exc(name).                  *)

Exc(name) == [t |-> "exc", name |-> name]
IsExc(v) == v.t = "exc"

RECURSIVE FirstExc(_)
\* the first exception among the values of a sequence, PyNone when none is
FirstExc(vs) ==
    IF vs = <<>> THEN PyNone
    ELSE IF IsExc(Head(vs)) THEN Head(vs)
    ELSE FirstExc(Tail(vs))

\* sep.join(v): v a list of str, or a str (joined character by character)
py_join(sep, v) ==
    CASE v.t = "list" ->
            IF \A i \in 1..Len(v.xs) : v.xs[i].t = "str"
            THEN PyStr(join(sep, [i \in 1..Len(v.xs) |-> v.xs[i].s]))
            ELSE Exc("TypeError")
      [] v.t = "str" -> PyStr(join(sep, [i \in 1..Len(v.s) |-> <<v.s[i]>>]))
      [] OTHER -> Exc("TypeError")

\* len(v)
py_len(v) ==
    CASE v.t = "list" -> PyInt(Len(v.xs))
      [] v.t = "str" -> PyInt(Len(v.s))
      [] v.t = "dict" -> PyInt(Cardinality(DOMAIN v.d))
      [] OTHER -> Exc("TypeError")

\* v[0] of a truthy v
py_first(v) ==
    CASE v.t = "list" -> v.xs[1]
      [] v.t = "str" -> PyStr(<<v.s[1]>>)
      [] v.t = "dict" -> Exc("KeyError")
      [] OTHER -> Exc("TypeError")

\* v.strip(): only a str has the method
py_strip(v) == IF v.t = "str" THEN PyStr(strip(v.s)) ELSE Exc("AttributeError")

----------------------------------------------------------------------------
(* extract_year                                                            *)

\* re.search(r'(\d{4})', s): the leftmost four consecutive digits, <<>> when none
FourDigits(s) ==
    LET hits == {i \in 1..(Len(s) - 3) : \A j \in i..(i + 3) : IsDigit(s[j])}
    IN  IF hits = {} THEN <<>>
        ELSE LET i == CHOOSE h \in hits : \A k \in hits : h <= k
             IN  SubSeq(s, i, i + 3)

extract_year(date_string) ==
    IF ~Truthy(date_string) THEN PyNone
    ELSE LET year_match == FourDigits(str(date_string))
         IN  IF year_match # <<>>
                /\ 1800 <= DigitsValue(year_match)
                /\ DigitsValue(year_match) <= 2030
             THEN PyInt(DigitsValue(year_match))
             ELSE PyNone

----------------------------------------------------------------------------
(* extract_genres                                                          *)

genre_patterns ==
    <<
      [genre |-> <<"f","i","c","t","i","o","n">>,
       patterns |-> <<<<"f","i","c","t","i","o","n">>,
                     <<"n","o","v","e","l">>,
                     <<"s","t","o","r","y">>,
                     <<"s","t","o","r","i","e","s">>>>],
      [genre |-> <<"f","a","n","t","a","s","y">>,
       patterns |-> <<<<"f","a","n","t","a","s","y">>,
                     <<"m","a","g","i","c">>,
                     <<"w","i","z","a","r","d","s">>,
                     <<"d","r","a","g","o","n","s">>>>],
      [genre |-> <<"s","c","i","e","n","c","e","_","f","i","c","t","i","o","n">>,
       patterns |-> <<<<"s","c","i","e","n","c","e"," ","f","i","c","t","i","o","n">>,
                     <<"s","c","i","-","f","i">>,
                     <<"s","p","a","c","e">>,
                     <<"a","l","i","e","n">>>>],
      [genre |-> <<"m","y","s","t","e","r","y">>,
       patterns |-> <<<<"m","y","s","t","e","r","y">>,
                     <<"d","e","t","e","c","t","i","v","e">>,
                     <<"c","r","i","m","e">>,
                     <<"t","h","r","i","l","l","e","r">>>>],
      [genre |-> <<"r","o","m","a","n","c","e">>,
       patterns |-> <<<<"r","o","m","a","n","c","e">>,
                     <<"l","o","v","e"," ","s","t","o","r","y">>,
                     <<"r","o","m","a","n","t","i","c">>>>],
      [genre |-> <<"h","o","r","r","o","r">>,
       patterns |-> <<<<"h","o","r","r","o","r">>,
                     <<"s","u","p","e","r","n","a","t","u","r","a","l">>,
                     <<"g","h","o","s","t">>,
                     <<"v","a","m","p","i","r","e">>>>],
      [genre |-> <<"b","i","o","g","r","a","p","h","y">>,
       patterns |-> <<<<"b","i","o","g","r","a","p","h","y">>,
                     <<"m","e","m","o","i","r">>,
                     <<"a","u","t","o","b","i","o","g","r","a","p","h","y">>>>],
      [genre |-> <<"h","i","s","t","o","r","y">>,
       patterns |-> <<<<"h","i","s","t","o","r","y">>,
                     <<"h","i","s","t","o","r","i","c","a","l">>>>],
      [genre |-> <<"p","h","i","l","o","s","o","p","h","y">>,
       patterns |-> <<<<"p","h","i","l","o","s","o","p","h","y">>,
                     <<"e","t","h","i","c","s">>>>],
      [genre |-> <<"r","e","l","i","g","i","o","n">>,
       patterns |-> <<<<"r","e","l","i","g","i","o","n">>,
                     <<"s","p","i","r","i","t","u","a","l">>,
                     <<"f","a","i","t","h">>>>],
      [genre |-> <<"s","c","i","e","n","c","e">>,
       patterns |-> <<<<"s","c","i","e","n","c","e">>,
                     <<"p","h","y","s","i","c","s">>,
                     <<"c","h","e","m","i","s","t","r","y">>,
                     <<"b","i","o","l","o","g","y">>>>],
      [genre |-> <<"b","u","s","i","n","e","s","s">>,
       patterns |-> <<<<"b","u","s","i","n","e","s","s">>,
                     <<"e","c","o","n","o","m","i","c","s">>,
                     <<"f","i","n","a","n","c","e">>>>],
      [genre |-> <<"s","e","l","f","_","h","e","l","p">>,
       patterns |-> <<<<"s","e","l","f","-","h","e","l","p">>,
                     <<"p","e","r","s","o","n","a","l"," ","d","e","v","e","l","o","p","m","e","n","t">>,
                     <<"m","o","t","i","v","a","t","i","o","n">>>>],
      [genre |-> <<"t","r","a","v","e","l">>,
       patterns |-> <<<<"t","r","a","v","e","l">>,
                     <<"g","u","i","d","e">>,
                     <<"t","o","u","r","i","s","m">>>>],
      [genre |-> <<"c","o","o","k","i","n","g">>,
       patterns |-> <<<<"c","o","o","k","i","n","g">>,
                     <<"r","e","c","i","p","e","s">>,
                     <<"f","o","o","d">>>>],
      [genre |-> <<"a","r","t">>,
       patterns |-> <<<<"a","r","t">>,
                     <<"p","a","i","n","t","i","n","g">>,
                     <<"s","c","u","l","p","t","u","r","e">>,
                     <<"d","e","s","i","g","n">>>>],
      [genre |-> <<"p","o","e","t","r","y">>,
       patterns |-> <<<<"p","o","e","t","r","y">>,
                     <<"p","o","e","m","s">>,
                     <<"v","e","r","s","e">>>>]
    >>

fiction_patterns == <<<<"f","i","c","t","i","o","n">>,
                      <<"n","o","v","e","l">>,
                      <<"s","t","o","r","y">>>>
G_fiction == <<"f","i","c","t","i","o","n">>
G_non_fiction == <<"n","o","n","_","f","i","c","t","i","o","n">>

AnyPattern(patterns, text) == \E i \in 1..Len(patterns) : Contains(text, patterns[i])

PySet(S) == [t |-> "set", xs |-> S]

\* The set `genres` that extract_genres builds, as PySet; the list it returns is
\* that set in its iteration order (see ListOrders).  Exc when ' '.join(subjects)
\* raises.
extract_genres(subjects) ==
    IF ~Truthy(subjects) THEN PySet({})
    ELSE LET joined == py_join(<<" ">>, subjects)
         IN  IF IsExc(joined) THEN joined
             ELSE LET subject_text == lower(joined.s)
                      genres == {genre_patterns[i].genre : i \in
                                    {k \in 1..Len(genre_patterns) :
                                        AnyPattern(genre_patterns[k].patterns, subject_text)}}
                  IN  IF AnyPattern(fiction_patterns, subject_text)
                      THEN PySet(genres \cup {G_fiction})
                      ELSE IF genres # {} /\ G_fiction \notin genres
                           THEN PySet(genres \cup {G_non_fiction})
                           ELSE PySet(genres)

\* Every order in which list(genres) can list a set: a str hashes differently
\* in every interpreter process, so the iteration order of a set of str is
\* not fixed by the code.
ListOrders(S) ==
    {q \in [1..Cardinality(S) -> S] : \A i, j \in 1..Cardinality(S) : i # j => q[i] # q[j]}

----------------------------------------------------------------------------
(* The quality filters.  Each takes self.stats and the payload and returns *)
(* [keep, stats]: the try body's verdict is "keep", "drop" or "raise", and *)
(* the except clause turns "raise" into a drop that counts one error.      *)

CountError(s, kind) == [s EXCEPT !.errors[kind] = @ + 1]

bad_indicators ==
    {<<"T","E","S","T">>,
     <<"D","U","P","L","I","C","A","T","E">>,
     <<"D","E","L","E","T","E">>,
     <<"[","M","E","R","G","E","D","]">>,
     <<"P","L","A","C","E","H","O","L","D","E","R">>,
     <<"T","E","M","P">>,
     <<"u00EF","u00BF","u00BD">>}

\* len(re.sub(r'[^a-zA-Z\s]', '', title))
LetterCount(title) ==
    Cardinality({i \in 1..Len(title) : IsAsciiLetter(title[i]) \/ IsSpace(title[i])})

\* The text of a description or bio: the 'value' of a dict, else str() of a
\* truthy value, else ''.
value_text(v) ==
    IF v.t = "dict" THEN Get(v, "value", PyStr(<<>>))
    ELSE IF Truthy(v) THEN PyStr(str(v)) ELSE PyStr(<<>>)

english_lit_indicators ==
    <<<<"f","i","c","t","i","o","n">>, <<"l","i","t","e","r","a","t","u","r","e">>,
      <<"n","o","v","e","l">>, <<"c","l","a","s","s","i","c">>, <<"a","w","a","r","d">>>>

\* has_popularity_signals, for a dict whose identifiers is a dict and whose
\* subjects and covers are lists: nothing calls it, the filter returns before
has_popularity_signals(work_data) ==
    LET identifiers == Get(work_data, "identifiers", PyDict(<<>>))
        subjects == Get(work_data, "subjects", PyList(<<>>))
        covers == Get(work_data, "covers", PyList(<<>>))
        subject_text == lower(join(<<" ">>, [i \in 1..Len(subjects.xs) |-> subjects.xs[i].s]))
    IN  \/ Truthy(Get(identifiers, "goodreads", PyNone))
        \/ Truthy(Get(identifiers, "amazon", PyNone))
        \/ Len(subjects.xs) >= 3
        \/ Len(covers.xs) >= 2
        \/ /\ \E i \in 1..Len(english_lit_indicators) :
                  Contains(subject_text, english_lit_indicators[i])
           /\ Len(subjects.xs) >= 2

\* should_keep_work with the year rule applied to every date that is present:
\* a date without a year in range is rejected
should_keep_work_try_year_required(work_data) ==
    IF work_data.t # "dict" THEN "raise"
    ELSE LET title == py_strip(Get(work_data, "title", PyStr(<<>>)))
             desc_text == py_strip(value_text(Get(work_data, "description", PyDict(<<>>))))
             authors_ == Get(work_data, "authors", PyList(<<>>))
             first_publish_date == Get(work_data, "first_publish_date", PyNone)
             pub_year == extract_year(first_publish_date)
         IN  IF IsExc(title) THEN "raise"
             ELSE IF Len(title.s) < 3 THEN "drop"
             ELSE IF \E indicator \in bad_indicators : Contains(upper(title.s), indicator)
                  THEN "drop"
             ELSE IF 10 * LetterCount(title.s) < 4 * Len(title.s) THEN "drop"
             ELSE IF IsExc(desc_text) THEN "raise"
             ELSE IF Len(desc_text.s) < 50 THEN "drop"
             ELSE IF ~Truthy(authors_) THEN "drop"
             ELSE IF Truthy(first_publish_date) /\ (~Truthy(pub_year) \/ pub_year.n < 1950)
                  THEN "drop"
             ELSE "keep"

\* should_keep_work without the `return True` that precedes the popularity test
should_keep_work_try_popular(work_data) ==
    IF work_data.t # "dict" THEN "raise"
    ELSE LET title == py_strip(Get(work_data, "title", PyStr(<<>>)))
             desc_text == py_strip(value_text(Get(work_data, "description", PyDict(<<>>))))
             authors_ == Get(work_data, "authors", PyList(<<>>))
             first_publish_date == Get(work_data, "first_publish_date", PyNone)
             pub_year == extract_year(first_publish_date)
         IN  IF IsExc(title) THEN "raise"
             ELSE IF Len(title.s) < 3 THEN "drop"
             ELSE IF \E indicator \in bad_indicators : Contains(upper(title.s), indicator)
                  THEN "drop"
             ELSE IF 10 * LetterCount(title.s) < 4 * Len(title.s) THEN "drop"
             ELSE IF IsExc(desc_text) THEN "raise"
             ELSE IF Len(desc_text.s) < 50 THEN "drop"
             ELSE IF ~Truthy(authors_) THEN "drop"
             ELSE IF Truthy(first_publish_date) /\ Truthy(pub_year) /\ pub_year.n < 1950
                  THEN "drop"
             ELSE IF ~has_popularity_signals(work_data) THEN "drop"
             ELSE "keep"

should_keep_work_try(work_data) ==
    IF work_data.t # "dict" THEN "raise"
    ELSE LET title == py_strip(Get(work_data, "title", PyStr(<<>>)))
             desc_text == py_strip(value_text(Get(work_data, "description", PyDict(<<>>))))
             authors_ == Get(work_data, "authors", PyList(<<>>))
             first_publish_date == Get(work_data, "first_publish_date", PyNone)
             pub_year == extract_year(first_publish_date)
         IN  IF IsExc(title) THEN "raise"
             ELSE IF Len(title.s) < 3 THEN "drop"
             ELSE IF \E indicator \in bad_indicators : Contains(upper(title.s), indicator)
                  THEN "drop"
             \* letter_ratio < 0.4, for quotients of two ints below 2^20
             ELSE IF 10 * LetterCount(title.s) < 4 * Len(title.s) THEN "drop"
             ELSE IF IsExc(desc_text) THEN "raise"
             ELSE IF Len(desc_text.s) < 50 THEN "drop"
             ELSE IF ~Truthy(authors_) THEN "drop"
             ELSE IF Truthy(first_publish_date) /\ Truthy(pub_year) /\ pub_year.n < 1950
                  THEN "drop"
             ELSE "keep"

\* should_keep_work with an except branch that does not count the error
should_keep_work_uncounted(s, work_data) ==
    [keep |-> should_keep_work_try(work_data) = "keep", stats |-> s]

should_keep_work(s, work_data) ==
    LET verdict == should_keep_work_try(work_data)
    IN  [keep |-> verdict = "keep",
         stats |-> IF verdict = "raise" THEN CountError(s, "work_filter_error") ELSE s]

L_languages_eng == <<"/","l","a","n","g","u","a","g","e","s","/","e","n","g">>
L_eng == <<"e","n","g">>

\* lang.get('key') == '/languages/eng' if isinstance(lang, dict) else lang == 'eng'
IsEnglish(lang) ==
    IF lang.t = "dict"
    THEN Get(lang, "key", PyNone) = PyStr(L_languages_eng)
    ELSE lang = PyStr(L_eng)

\* the elements a for loop or any() visits; Exc when v is not iterable
\* (a dict, which iterates over its keys, is not among the modelled inputs)
py_iter(v) ==
    CASE v.t = "list" -> v
      [] v.t = "str" -> PyList([i \in 1..Len(v.s) |-> PyStr(<<v.s[i]>>)])
      [] v.t \in {"none", "int", "bool"} -> Exc("TypeError")

\* should_keep_edition without the test of the languages
should_keep_edition_try_any_language(edition_data) ==
    IF edition_data.t # "dict" THEN "raise"
    ELSE LET isbn_13 == Get(edition_data, "isbn_13", PyList(<<>>))
             isbn_10 == Get(edition_data, "isbn_10", PyList(<<>>))
             languages == Get(edition_data, "languages", PyList(<<>>))
             langs == py_iter(languages)
             publish_date == Get(edition_data, "publish_date", PyNone)
             pub_year == extract_year(publish_date)
             pages == Get(edition_data, "number_of_pages", PyNone)
             publishers == Get(edition_data, "publishers", PyList(<<>>))
         IN  IF ~Truthy(isbn_13) /\ ~Truthy(isbn_10) THEN "drop"
             ELSE IF ~Truthy(publish_date) THEN "drop"
             ELSE IF ~Truthy(pub_year) \/ pub_year.n < 1940 THEN "drop"
             \* pages < 30 compares with an int: a str or a list raises TypeError
             ELSE IF Truthy(pages) /\ pages.t \notin {"int", "bool"} THEN "raise"
             ELSE IF Truthy(pages) /\ pages.t = "int" /\ (pages.n < 30 \/ pages.n > 1500)
                  THEN "drop"
             \* True is 1
             ELSE IF Truthy(pages) /\ pages.t = "bool" THEN "drop"
             ELSE IF ~Truthy(publishers) THEN "drop"
             ELSE "keep"

should_keep_edition_try(edition_data) ==
    IF edition_data.t # "dict" THEN "raise"
    ELSE LET isbn_13 == Get(edition_data, "isbn_13", PyList(<<>>))
             isbn_10 == Get(edition_data, "isbn_10", PyList(<<>>))
             languages == Get(edition_data, "languages", PyList(<<>>))
             langs == py_iter(languages)
             publish_date == Get(edition_data, "publish_date", PyNone)
             pub_year == extract_year(publish_date)
             pages == Get(edition_data, "number_of_pages", PyNone)
             publishers == Get(edition_data, "publishers", PyList(<<>>))
         IN  IF ~Truthy(isbn_13) /\ ~Truthy(isbn_10) THEN "drop"
             ELSE IF Truthy(languages) /\ IsExc(langs) THEN "raise"
             ELSE IF Truthy(languages)
                     /\ ~\E i \in 1..Len(langs.xs) : IsEnglish(langs.xs[i])
                  THEN "drop"
             ELSE IF ~Truthy(publish_date) THEN "drop"
             ELSE IF ~Truthy(pub_year) \/ pub_year.n < 1940 THEN "drop"
             \* pages < 30 compares with an int: a str or a list raises TypeError
             ELSE IF Truthy(pages) /\ pages.t \notin {"int", "bool"} THEN "raise"
             ELSE IF Truthy(pages) /\ pages.t = "int" /\ (pages.n < 30 \/ pages.n > 1500)
                  THEN "drop"
             \* True is 1
             ELSE IF Truthy(pages) /\ pages.t = "bool" THEN "drop"
             ELSE IF ~Truthy(publishers) THEN "drop"
             ELSE "keep"

should_keep_edition(s, edition_data) ==
    LET verdict == should_keep_edition_try(edition_data)
    IN  [keep |-> verdict = "keep",
         stats |-> IF verdict = "raise" THEN CountError(s, "edition_filter_error") ELSE s]

bad_names ==
    {<<"T","E","S","T">>,
     <<"D","U","P","L","I","C","A","T","E">>,
     <<"D","E","L","E","T","E">>,
     <<"U","N","K","N","O","W","N">>}

\* should_keep_author without the loop over bad_names
should_keep_author_try_any_name(author_data) ==
    IF author_data.t # "dict" THEN "raise"
    ELSE LET name == py_strip(Get(author_data, "name", PyStr(<<>>)))
         IN  IF IsExc(name) THEN "raise"
             ELSE IF Len(name.s) < 2 THEN "drop"
             ELSE "keep"

should_keep_author_try(author_data) ==
    IF author_data.t # "dict" THEN "raise"
    ELSE LET name == py_strip(Get(author_data, "name", PyStr(<<>>)))
         IN  IF IsExc(name) THEN "raise"
             ELSE IF Len(name.s) < 2 THEN "drop"
             ELSE IF \E bad \in bad_names : Contains(upper(name.s), bad) THEN "drop"
             ELSE "keep"

should_keep_author(s, author_data) ==
    LET verdict == should_keep_author_try(author_data)
    IN  [keep |-> verdict = "keep",
         stats |-> IF verdict = "raise" THEN CountError(s, "author_filter_error") ELSE s]

----------------------------------------------------------------------------
(* The extractors.  Each returns the entity as a record of Python values,  *)
(* or the exception that the code raises while building it.                *)

\* csv.writer's text of a cell: '' for None, str() of anything else
CsvCell(v) == IF v.t = "none" THEN <<>> ELSE str(v)
writerow(values) == [i \in 1..Len(values) |-> CsvCell(values[i])]

\* v.get(k, default): only a dict has the method
py_get(v, k, default) == IF v.t = "dict" THEN Get(v, k, default) ELSE Exc("AttributeError")

RECURSIVE Flatten(_)
Flatten(seqs) == IF seqs = <<>> THEN <<>> ELSE Head(seqs) \o Flatten(Tail(seqs))

SelectTruthy(vs) == SelectSeq(vs, Truthy)

\* what one pass of the loop over `authors` appends to author_keys
author_key_of(author) ==
    IF author.t = "dict"
    THEN IF "author" \in DOMAIN author.d /\ author.d["author"].t = "dict"
         THEN <<Get(author.d["author"], "key", PyNone)>>
         ELSE IF "key" \in DOMAIN author.d THEN <<author.d["key"]>>
         ELSE <<>>
    ELSE IF author.t = "str" THEN <<author>>
    ELSE <<>>

cover_url_prefix ==
    <<"h","t","t","p","s",":","/","/","c","o","v","e","r","s",".","o","p","e","n","l","i","b",
      "r","a","r","y",".","o","r","g","/","b","/","i","d","/">>
cover_url_suffix == <<"-","L",".","j","p","g">>

\* `x[0] if x else None`
first_or_none(v) == IF Truthy(v) THEN py_first(v) ELSE PyNone

\* '|'.join(v) if v else ''
join_or_empty(v) == IF Truthy(v) THEN py_join(<<"|">>, v) ELSE PyStr(<<>>)

\* datetime.now().isoformat(): the clock is not modelled, every reading is "now"
now_isoformat == PyStr(<<"now">>)

\* `genres` is the list that extract_genres returned: PyList, or its exception
extract_work_data(record, genres) ==
    LET data == record.data
        desc_text == value_text(Get(data, "description", PyDict(<<>>)))
        authors_ == py_iter(Get(data, "authors", PyList(<<>>)))
        author_keys ==
            IF IsExc(authors_) THEN <<>>
            ELSE Flatten([i \in 1..Len(authors_.xs) |-> author_key_of(authors_.xs[i])])
        subjects == Get(data, "subjects", PyList(<<>>))
        identifiers == Get(data, "identifiers", PyDict(<<>>))
        cover_id == first_or_none(Get(data, "covers", PyList(<<>>)))
        first_publish_date == Get(data, "first_publish_date", PyNone)
        title == py_strip(Get(data, "title", PyStr(<<>>)))
        description == py_strip(desc_text)
        edition_count == py_len(Get(data, "edition_key", PyList(<<>>)))
        subjects_text == join_or_empty(subjects)
        genres_text == IF IsExc(genres) THEN genres ELSE join_or_empty(genres)
        goodreads == py_get(identifiers, "goodreads", PyNone)
        amazon == py_get(identifiers, "amazon", PyNone)
        raised == FirstExc(<<authors_, genres, cover_id, title, description, edition_count,
                             subjects_text, genres_text, goodreads, amazon>>)
    IN  IF IsExc(raised) THEN raised
        ELSE [t |-> "work",
              openlibrary_work_key |-> PyStr(record.key),
              title |-> title,
              description |-> description,
              first_publish_year |->
                  IF Truthy(first_publish_date) THEN extract_year(first_publish_date) ELSE PyNone,
              edition_count |-> edition_count,
              cover_id |-> cover_id,
              cover_url |->
                  IF Truthy(cover_id)
                  THEN PyStr(cover_url_prefix \o str(cover_id) \o cover_url_suffix)
                  ELSE PyNone,
              subjects |-> subjects_text,
              genres |-> genres_text,
              has_goodreads_id |-> PyBool(Truthy(goodreads)),
              has_amazon_id |-> PyBool(Truthy(amazon)),
              author_keys |-> SelectTruthy(author_keys),
              created_at |-> now_isoformat]

L_languages == <<"/","l","a","n","g","u","a","g","e","s","/">>

\* what one pass of the loop over `languages` appends to lang_codes
lang_code_of(lang) ==
    IF lang.t = "dict"
    THEN LET key == Get(lang, "key", PyStr(<<>>))
         IN  IF key.t = "str" THEN PyStr(remove(key.s, L_languages)) ELSE Exc("AttributeError")
    ELSE PyStr(str(lang))

extract_edition_data(record, work_key) ==
    LET data == record.data
        isbn_10_list == Get(data, "isbn_10", PyList(<<>>))
        isbn_13_list == Get(data, "isbn_13", PyList(<<>>))
        languages == py_iter(Get(data, "languages", PyList(<<>>)))
        lang_codes ==
            IF IsExc(languages) THEN <<languages>>
            ELSE [i \in 1..Len(languages.xs) |-> lang_code_of(languages.xs[i])]
        lang_raised == FirstExc(lang_codes)
        cover_id == first_or_none(Get(data, "covers", PyList(<<>>)))
        publish_date == Get(data, "publish_date", PyStr(<<>>))
        title == py_strip(Get(data, "title", PyStr(<<>>)))
        isbn_10 == join_or_empty(isbn_10_list)
        isbn_13 == join_or_empty(isbn_13_list)
        publishers == py_join(<<"|">>, Get(data, "publishers", PyList(<<>>)))
        raised == FirstExc(<<lang_raised, cover_id, title, isbn_10, isbn_13, publishers>>)
    IN  IF IsExc(raised) THEN raised
        ELSE [t |-> "edition",
              openlibrary_edition_key |-> PyStr(record.key),
              openlibrary_work_key |-> work_key,
              title |-> title,
              isbn_10 |-> isbn_10,
              isbn_13 |-> isbn_13,
              publishers |-> publishers,
              publish_date |-> publish_date,
              publish_year |-> extract_year(publish_date),
              number_of_pages |-> Get(data, "number_of_pages", PyNone),
              languages |-> py_join(<<"|">>, PyList(lang_codes)),
              physical_format |-> Get(data, "physical_format", PyStr(<<>>)),
              cover_id |-> cover_id,
              created_at |-> now_isoformat]

extract_author_data(record) ==
    LET data == record.data
        bio == py_strip(value_text(Get(data, "bio", PyDict(<<>>))))
        photo_id == first_or_none(Get(data, "photos", PyList(<<>>)))
        name == py_strip(Get(data, "name", PyStr(<<>>)))
        personal_name == py_strip(Get(data, "personal_name", PyStr(<<>>)))
        raised == FirstExc(<<bio, photo_id, name, personal_name>>)
    IN  IF IsExc(raised) THEN raised
        ELSE [t |-> "author",
              openlibrary_key |-> PyStr(record.key),
              name |-> name,
              personal_name |-> personal_name,
              bio |-> bio,
              birth_date |-> Get(data, "birth_date", PyStr(<<>>)),
              death_date |-> Get(data, "death_date", PyStr(<<>>)),
              photo_id |-> photo_id,
              created_at |-> now_isoformat]

----------------------------------------------------------------------------
(* The csv sinks: a sink is the sequence of the rows written to it, a row  *)
(* the sequence of its cells as csv.writer writes them.                    *)

books_header ==
    <<"openlibrary_work_key", "title", "description", "first_publish_year",
      "edition_count", "cover_id", "cover_url", "subjects", "genres",
      "has_goodreads_id", "has_amazon_id", "created_at">>
editions_header ==
    <<"openlibrary_edition_key", "openlibrary_work_key", "title",
      "isbn_10", "isbn_13", "publishers", "publish_date", "publish_year",
      "number_of_pages", "languages", "physical_format", "cover_id", "created_at">>
authors_header ==
    <<"openlibrary_key", "name", "personal_name", "bio",
      "birth_date", "death_date", "photo_id", "created_at">>
book_authors_header == <<"openlibrary_work_key", "openlibrary_author_key", "role">>

\* the row of a record under a header: the record's fields in the header's order
RowOf(header, rec) == writerow([i \in 1..Len(header) |-> rec[header[i]]])

\* a write that truncates the file before it writes the row
write_work_to_csv_truncating(sink, work_data) == <<sink[1], RowOf(books_header, work_data)>>

write_work_to_csv(sink, work_data) == Append(sink, RowOf(books_header, work_data))

write_work_authors_to_csv(sink, work_data) ==
    sink \o [i \in 1..Len(work_data.author_keys) |->
                writerow(<<work_data.openlibrary_work_key,
                           work_data.author_keys[i],
                           PyStr(<<"a","u","t","h","o","r">>)>>)]

write_edition_to_csv(sink, edition_data) == Append(sink, RowOf(editions_header, edition_data))

write_author_to_csv(sink, author_data) == Append(sink, RowOf(authors_header, author_data))

----------------------------------------------------------------------------
(* The processor's state as one value, and the record processors as        *)
(* functions from it: each returns the set of outcomes [st, exc] the call  *)
(* can have, exc the name of the exception that escapes it ("" for none).  *)

State ==
    [stats |-> stats,
     kept_works |-> kept_works,
     kept_editions |-> kept_editions,
     kept_authors |-> kept_authors,
     books |-> books,
     editions |-> editions,
     authors |-> authors,
     book_authors |-> book_authors,
     disk_full |-> disk_full]

Returns(st) == [st |-> st, exc |-> ""]
Raises(st, e) == [st |-> st, exc |-> e.name]

\* the lists extract_genres can return for a payload (or its exception)
genre_lists(data) ==
    LET genres == extract_genres(Get(data, "subjects", PyList(<<>>)))
    IN  IF IsExc(genres) THEN {genres}
        ELSE {PyList([i \in 1..Len(q) |-> PyStr(q[i])]) : q \in ListOrders(genres.xs)}

\* process_work that forgets a key when a record with that key is rejected
process_work_forgetting(st, record) ==
    LET counted == [st EXCEPT !.stats.works_processed = @ + 1]
        verdict == should_keep_work(counted.stats, record.data)
        filtered == [counted EXCEPT !.stats = verdict.stats]
    IN  IF ~verdict.keep
        THEN {Returns([filtered EXCEPT !.kept_works = @ \ {record.key}])}
        ELSE {LET work_data == extract_work_data(record, genres)
              IN  IF IsExc(work_data) THEN Raises(filtered, work_data)
                  ELSE Returns([filtered EXCEPT
                          !.kept_works = @ \cup {record.key},
                          !.books = write_work_to_csv(@, work_data),
                          !.book_authors = write_work_authors_to_csv(@, work_data),
                          !.stats.works_kept = @ + 1])
              : genres \in genre_lists(record.data)}

process_work(st, record) ==
    LET counted == [st EXCEPT !.stats.works_processed = @ + 1]
        verdict == should_keep_work(counted.stats, record.data)
        filtered == [counted EXCEPT !.stats = verdict.stats]
    IN  IF ~verdict.keep THEN {Returns(filtered)}
        ELSE {LET work_data == extract_work_data(record, genres)
              IN  IF IsExc(work_data) THEN Raises(filtered, work_data)
                  ELSE IF st.disk_full
                  THEN Raises([filtered EXCEPT !.kept_works = @ \cup {record.key}],
                              Exc("OSError"))
                  ELSE Returns([filtered EXCEPT
                          !.kept_works = @ \cup {record.key},
                          !.books = write_work_to_csv(@, work_data),
                          !.book_authors = write_work_authors_to_csv(@, work_data),
                          !.stats.works_kept = @ + 1])
              : genres \in genre_lists(record.data)}

\* a membership test that finds every key
in_kept_works_any(st, work_key) ==
    IF work_key.t \in {"list", "dict"} THEN Exc("TypeError") ELSE PyBool(TRUE)

\* `work_key in self.kept_works`: hashing a list or a dict raises TypeError
in_kept_works(st, work_key) ==
    IF work_key.t \in {"list", "dict"} THEN Exc("TypeError")
    ELSE PyBool(work_key.t = "str" /\ work_key.s \in st.kept_works)

\* process_edition with `or` for the `and` of its condition
process_edition_either(st, record) ==
    LET counted == [st EXCEPT !.stats.editions_processed = @ + 1]
        data == record.data
        work_keys == py_get(data, "works", PyList(<<>>))
        first == py_first(work_keys)
        work_key == IF first.t = "dict" THEN Get(first, "key", PyNone) ELSE first
        known == in_kept_works(counted, work_key)
        verdict == should_keep_edition(counted.stats, data)
        filtered == IF known.b THEN counted ELSE [counted EXCEPT !.stats = verdict.stats]
        edition_data == extract_edition_data(record, work_key)
    IN  IF IsExc(work_keys) THEN {Raises(counted, work_keys)}
        ELSE IF ~Truthy(work_keys) THEN {Returns(counted)}
        ELSE IF IsExc(first) THEN {Raises(counted, first)}
        ELSE IF IsExc(known) THEN {Raises(counted, known)}
        ELSE IF ~known.b /\ ~verdict.keep THEN {Returns(filtered)}
        ELSE IF IsExc(edition_data) THEN {Raises(filtered, edition_data)}
        ELSE IF st.disk_full
        THEN {Raises([filtered EXCEPT !.kept_editions = @ \cup {record.key}], Exc("OSError"))}
        ELSE {Returns([filtered EXCEPT
                  !.kept_editions = @ \cup {record.key},
                  !.editions = write_edition_to_csv(@, edition_data),
                  !.stats.editions_kept = @ + 1])}

process_edition(st, record) ==
    LET counted == [st EXCEPT !.stats.editions_processed = @ + 1]
        data == record.data
        work_keys == py_get(data, "works", PyList(<<>>))
        first == py_first(work_keys)
        work_key == IF first.t = "dict" THEN Get(first, "key", PyNone) ELSE first
        known == in_kept_works(counted, work_key)
        verdict == should_keep_edition(counted.stats, data)
        filtered == [counted EXCEPT !.stats = verdict.stats]
        edition_data == extract_edition_data(record, work_key)
    IN  IF IsExc(work_keys) THEN {Raises(counted, work_keys)}
        ELSE IF ~Truthy(work_keys) THEN {Returns(counted)}
        ELSE IF IsExc(first) THEN {Raises(counted, first)}
        ELSE IF IsExc(known) THEN {Raises(counted, known)}
        ELSE IF ~known.b THEN {Returns(counted)}
        ELSE IF ~verdict.keep THEN {Returns(filtered)}
        ELSE IF IsExc(edition_data) THEN {Raises(filtered, edition_data)}
        ELSE IF st.disk_full
        THEN {Raises([filtered EXCEPT !.kept_editions = @ \cup {record.key}], Exc("OSError"))}
        ELSE {Returns([filtered EXCEPT
                  !.kept_editions = @ \cup {record.key},
                  !.editions = write_edition_to_csv(@, edition_data),
                  !.stats.editions_kept = @ + 1])}

\* process_author recording the key before it asks the filter
process_author_eager(st, record) ==
    LET counted == [st EXCEPT !.stats.authors_processed = @ + 1,
                              !.kept_authors = @ \cup {record.key}]
        verdict == should_keep_author(counted.stats, record.data)
        filtered == [counted EXCEPT !.stats = verdict.stats]
        author_data == extract_author_data(record)
    IN  IF ~verdict.keep THEN {Returns(filtered)}
        ELSE IF IsExc(author_data) THEN {Raises(filtered, author_data)}
        ELSE {Returns([filtered EXCEPT
                  !.authors = write_author_to_csv(@, author_data),
                  !.stats.authors_kept = @ + 1])}

process_author(st, record) ==
    LET counted == [st EXCEPT !.stats.authors_processed = @ + 1]
        verdict == should_keep_author(counted.stats, record.data)
        filtered == [counted EXCEPT !.stats = verdict.stats]
        author_data == extract_author_data(record)
    IN  IF ~verdict.keep THEN {Returns(filtered)}
        ELSE IF IsExc(author_data) THEN {Raises(filtered, author_data)}
        ELSE IF st.disk_full
        THEN {Raises([filtered EXCEPT !.kept_authors = @ \cup {record.key}], Exc("OSError"))}
        ELSE {Returns([filtered EXCEPT
                  !.kept_authors = @ \cup {record.key},
                  !.authors = write_author_to_csv(@, author_data),
                  !.stats.authors_kept = @ + 1])}

process_record(st, record) ==
    IF record.type = "/type/work" THEN process_work(st, record)
    ELSE IF record.type = "/type/edition" THEN process_edition(st, record)
    ELSE IF record.type = "/type/author" THEN process_author(st, record)
    ELSE {Returns(st)}

----------------------------------------------------------------------------
(* parse_line.  A line is the sequence of its tab-separated fields: the    *)
(* type, the key, the revision, the timestamp, then the pieces that the    *)
(* tabs inside the JSON text cut it into.  A piece is [text, piece]: the   *)
(* piece-th of the text.pieces pieces of JSON text `text`, and a text is   *)
(* [pieces, doc] with doc the value json.loads decodes it to, or           *)
(* Exc("JSONDecodeError").                                                 *)

relevant_types == {"/type/work", "/type/edition", "/type/author"}

\* '\t'.join(parts[4:]): the text whose pieces these are, in order and complete;
\* any other joining is a text that does not decode
tab_join(pieces) ==
    IF /\ Len(pieces) = pieces[1].text.pieces
       /\ \A i \in 1..Len(pieces) : pieces[i] = [text |-> pieces[1].text, piece |-> i]
    THEN pieces[1].text
    ELSE [pieces |-> Len(pieces), doc |-> Exc("JSONDecodeError")]

json_loads(text) == text.doc

\* [kind |-> "none"], [kind |-> "record", record |-> ...] or [kind |-> "raise", exc |-> name]
parse_line(parts) ==
    IF Len(parts) < 5 THEN [kind |-> "none"]
    ELSE LET record_type == parts[1]
             key == parts[2]
             revision == parts[3]
             timestamp == parts[4]
             json_data == tab_join(SubSeq(parts, 5, Len(parts)))
             data == json_loads(json_data)
         IN  IF record_type \notin relevant_types THEN [kind |-> "none"]
             ELSE IF IsExc(data) THEN [kind |-> "none"]
             ELSE IF int(revision) = PyNone THEN [kind |-> "raise", exc |-> "ValueError"]
             ELSE [kind |-> "record",
                   record |-> [type |-> record_type,
                               key |-> key,
                               revision |-> int(revision).n,
                               timestamp |-> timestamp,
                               data |-> data]]

----------------------------------------------------------------------------
(* The driver: one pass of the loop of process_file over one line.         *)

ErrorKinds ==
    {"parse_error_ValueError", "parse_error_TypeError", "parse_error_AttributeError",
     "parse_error_KeyError", "parse_error_OSError", "work_filter_error", "edition_filter_error",
     "author_filter_error"}

\* f'parse_error_{type(e).__name__}'
parse_error(name) ==
    CASE name = "ValueError" -> "parse_error_ValueError"
      [] name = "TypeError" -> "parse_error_TypeError"
      [] name = "AttributeError" -> "parse_error_AttributeError"
      [] name = "KeyError" -> "parse_error_KeyError"
      [] name = "OSError" -> "parse_error_OSError"

\* the body of the for loop for line number line_num: the states it can end in
process_line(st, parts) ==
    LET numbered == [st EXCEPT !.stats.total_lines_processed = @ + 1]
        parsed == parse_line(parts)
        failed(s, name) == [s EXCEPT !.stats = CountError(@, parse_error(name))]
    IN  IF parsed.kind = "raise" THEN {failed(numbered, parsed.exc)}
        ELSE IF parsed.kind = "none" THEN {numbered}
        ELSE {IF o.exc = "" THEN o.st ELSE failed(o.st, o.exc)
              : o \in process_record(numbered, parsed.record)}

----------------------------------------------------------------------------
(* The input: the lines a dump can hold.                                   *)

\* the length of the longest stream the model reads
MaxLines == 3

OL1W == <<"O","L","1","W">>
OL2W == <<"O","L","2","W">>
OL1M == <<"O","L","1","M">>
OL1A == <<"O","L","1","A">>

Text(n, c) == [i \in 1..n |-> c]

\* d with key k set to v, and d without key k
With(v, k, x) == PyDict((k :> x) @@ v.d)
Without(v, k) == PyDict([f \in DOMAIN v.d \ {k} |-> v.d[f]])

author_role(key) == PyDict([author |-> PyDict([key |-> PyStr(key)])])

good_work ==
    PyDict([title |-> PyStr(<<"D","u","n","e">>),
            description |-> PyDict([value |-> PyStr(Text(50, "d"))]),
            authors |-> PyList(<<author_role(OL1A)>>)])

\* a work that two patterns of the genre table match
poetry_work == With(good_work, "subjects", PyList(<<PyStr(<<"P","o","e","t","r","y">>)>>))

WorkPayloads ==
    {good_work,
     With(good_work, "title",
          PyStr(<<"D","U","P","L","I","C","A","T","E"," ","R","e","c","o","r","d">>)),
     With(good_work, "title", PyStr(<<"C","a","f","u00EF","u00BF","u00BD">>)),
     With(good_work, "title", PyInt(7)),
     With(good_work, "description", PyStr(Text(49, "d") \o <<" ", " ">>)),
     With(good_work, "authors", PyList(<<PyDict([type |-> PyStr(<<"r","o","l","e">>)])>>)),
     With(good_work, "authors", PyList(<<author_role(OL1A), PyDict([key |-> PyStr(OL1A)])>>)),
     With(good_work, "authors", PyInt(1)),
     poetry_work}

good_edition ==
    PyDict([works |-> PyList(<<PyDict([key |-> PyStr(OL1W)])>>),
            isbn_13 |-> PyList(<<PyStr(<<"9","7","8","0","4","4","1","0","1","3","5","9","3">>)>>),
            publish_date |-> PyStr(<<"1","9","9","0">>),
            publishers |-> PyList(<<PyStr(<<"A","c","e">>)>>),
            languages |-> PyList(<<PyDict([key |-> PyStr(L_languages_eng)])>>)])

EditionPayloads ==
    {good_edition,
     With(good_edition, "works", PyList(<<PyStr(OL2W)>>)),
     With(good_edition, "works", PyList(<<>>)),
     With(good_edition, "isbn_13", PyList(<<PyStr(<<>>)>>)),
     Without(good_edition, "isbn_13"),
     With(good_edition, "publish_date", PyStr(<<"1","9","3","9">>)),
     PyNone}

good_author ==
    PyDict([name |-> PyStr(<<"J","a","n","e"," ","D","o","e">>),
            bio |-> PyDict([value |-> PyStr(Text(60, "b"))])])

AuthorPayloads ==
    {good_author,
     With(good_author, "name", PyStr(<<"T","e","s","t"," ","A","u","t","h","o","r">>)),
     With(good_author, "name", PyStr(<<"u","n","k","n","o","w","n">>)),
     With(good_author, "name", PyStr(<<" ","J"," ">>))}

\* a JSON text without a tab in it, and the one piece it makes
Json(doc) == [pieces |-> 1, doc |-> doc]
OnePiece(doc) == <<[text |-> Json(doc), piece |-> 1]>>
\* a JSON text with one tab in it, and its two pieces
TwoPieces(doc) ==
    <<[text |-> [pieces |-> 2, doc |-> doc], piece |-> 1],
      [text |-> [pieces |-> 2, doc |-> doc], piece |-> 2]>>

TS == "2020-01-01T00:00:00Z"

Lines ==
    {<<"/type/work", OL1W, <<"1">>, TS>> \o OnePiece(d) : d \in WorkPayloads}
    \cup {<<"/type/work", OL2W, <<"2">>, TS>> \o OnePiece(good_work)}
    \cup {<<"/type/edition", OL1M, <<"1">>, TS>> \o OnePiece(d) : d \in EditionPayloads}
    \cup {<<"/type/author", OL1A, <<"1">>, TS>> \o OnePiece(d) : d \in AuthorPayloads}
    \cup {<<"/type/author", OL1A, <<"3">>, TS>>
              \o TwoPieces(With(good_author, "name", PyStr(<<"J","o">>))),
          <<"/type/author", OL1A, <<"x">>, TS>> \o OnePiece(good_author),
          <<"/type/work", OL1W, <<"1">>, TS>> \o OnePiece(Exc("JSONDecodeError")),
          <<"/type/redirect", OL1W, <<"1">>, TS>> \o OnePiece(good_work),
          <<"/type/work", OL1W, <<"1">>, TS>>,
          <<"/type/work", OL1W, <<"1">>>>}

----------------------------------------------------------------------------
(* The state machine.                                                      *)

vars ==
    <<stats, kept_works, kept_editions, kept_authors,
      books, editions, authors, book_authors, line, pc, rerun, orphaned, probe,
      disk_full, open_files, reported>>

\* the names of the four sinks in self.csv_files
SinkNames == {"books", "editions", "authors", "book_authors"}

\* the state __init__ leaves: counters at zero, nothing kept, the four
\* headers written by init_csv_writers
Constructed ==
    [stats |-> [total_lines_processed |-> 0,
                works_processed |-> 0,
                works_kept |-> 0,
                editions_processed |-> 0,
                editions_kept |-> 0,
                authors_processed |-> 0,
                authors_kept |-> 0,
                errors |-> [k \in ErrorKinds |-> 0]],
     kept_works |-> {},
     kept_editions |-> {},
     kept_authors |-> {},
     books |-> <<books_header>>,
     editions |-> <<editions_header>>,
     authors |-> <<authors_header>>,
     book_authors |-> <<book_authors_header>>,
     disk_full |-> FALSE]

InitRun ==
    /\ stats = Constructed.stats
    /\ kept_works = Constructed.kept_works
    /\ kept_editions = Constructed.kept_editions
    /\ kept_authors = Constructed.kept_authors
    /\ books = Constructed.books
    /\ editions = Constructed.editions
    /\ authors = Constructed.authors
    /\ book_authors = Constructed.book_authors
    /\ line = <<>>
    /\ pc = "scan"
    /\ rerun = Constructed
    /\ orphaned = {}
    /\ disk_full = FALSE
    /\ open_files = SinkNames
    /\ reported = FALSE

Init == InitRun /\ probe = [op |-> "none"]

\* the first entry of the works list of an edition line, as process_edition
\* reads it; PyNone for any other line
WorkRef(parts) ==
    LET parsed == parse_line(parts)
        data == parsed.record.data
        work_keys == Get(data, "works", PyList(<<>>))
    IN  IF /\ parsed.kind = "record"
           /\ parsed.record.type = "/type/edition"
           /\ data.t = "dict"
           /\ work_keys.t = "list"
           /\ work_keys.xs # <<>>
        THEN IF work_keys.xs[1].t = "dict"
             THEN Get(work_keys.xs[1], "key", PyNone)
             ELSE work_keys.xs[1]
        ELSE PyNone

\* the work keys this line orphans: see `orphaned`
Orphans(parts) ==
    LET ref == WorkRef(parts)
    IN  IF /\ ref.t = "str"
           /\ ref.s \notin kept_works
           /\ should_keep_edition_try(parse_line(parts).record.data) = "keep"
        THEN {ref.s}
        ELSE {}

\* the loop body without its try: an exception of parse_line leaves the loop
Run_unguarded(parts) ==
    /\ pc = "scan"
    /\ stats.total_lines_processed < MaxLines
    /\ \E st \in process_line(State, parts) :
        /\ stats' = st.stats
        /\ kept_works' = st.kept_works
        /\ kept_editions' = st.kept_editions
        /\ kept_authors' = st.kept_authors
        /\ books' = st.books
        /\ editions' = st.editions
        /\ authors' = st.authors
        /\ book_authors' = st.book_authors
    /\ line' = parts
    /\ pc' = IF parse_line(parts).kind = "raise" THEN "fatal" ELSE pc
    /\ orphaned' = orphaned \cup Orphans(parts)
    /\ UNCHANGED <<disk_full, open_files, reported>>

\* the loop reads the next line of the file and processes it
Run(parts) ==
    /\ pc = "scan"
    /\ stats.total_lines_processed < MaxLines
    /\ \E st \in process_line(State, parts) :
        /\ stats' = st.stats
        /\ kept_works' = st.kept_works
        /\ kept_editions' = st.kept_editions
        /\ kept_authors' = st.kept_authors
        /\ books' = st.books
        /\ editions' = st.editions
        /\ authors' = st.authors
        /\ book_authors' = st.book_authors
    /\ line' = parts
    /\ pc' = pc
    /\ orphaned' = orphaned \cup Orphans(parts)
    /\ UNCHANGED <<disk_full, open_files, reported>>

ReadLine(parts) == Run(parts) /\ UNCHANGED <<rerun, probe>>

\* a close_csv_writers that closes nothing
close_csv_writers_none(files) == files

\* close_csv_writers: every file of self.csv_files is closed
close_csv_writers(files) == {}

\* the finally block: the sinks are closed, then the statistics are printed
Finally ==
    /\ open_files' = close_csv_writers(open_files)
    /\ reported' = TRUE

\* the file is at its end: the loop is left and the finally block runs
EndOfFile ==
    /\ pc = "scan"
    /\ pc' = "done"
    /\ Finally
    /\ UNCHANGED <<stats, kept_works, kept_editions, kept_authors, books, editions,
                   authors, book_authors, line, rerun, orphaned, probe, disk_full>>

Next ==
    \/ \E parts \in Lines : ReadLine(parts)
    \/ EndOfFile

Spec == Init /\ [][Next]_vars

----------------------------------------------------------------------------
(* Two runs of the processor over the same file, line by line: `rerun` is  *)
(* the state of the second.                                                *)

ReadLineTwice(parts) ==
    /\ Run(parts)
    /\ rerun' \in process_line(rerun, parts)
    /\ UNCHANGED probe

\* the lines of the files that are run twice
RerunLines ==
    {<<"/type/work", OL1W, <<"1">>, TS>> \o OnePiece(good_work),
     <<"/type/work", OL1W, <<"1">>, TS>> \o OnePiece(poetry_work),
     <<"/type/work", OL2W, <<"2">>, TS>> \o OnePiece(good_work),
     <<"/type/edition", OL1M, <<"1">>, TS>> \o OnePiece(good_edition),
     <<"/type/edition", OL1M, <<"1">>, TS>>
         \o OnePiece(With(good_edition, "works", PyList(<<PyStr(OL2W)>>))),
     <<"/type/author", OL1A, <<"1">>, TS>> \o OnePiece(good_author),
     <<"/type/author", OL1A, <<"1">>, TS>>
         \o OnePiece(With(good_author, "name", PyStr(<<"T","e","s","t"," ","A","u","t","h","o","r">>)))}

NextTwoRuns ==
    \/ \E parts \in RerunLines : ReadLineTwice(parts)
    \/ EndOfFile

SpecTwoRuns == Init /\ [][NextTwoRuns]_vars

----------------------------------------------------------------------------
(* The run under faults: the disk can fill up, so that a write to a sink   *)
(* raises OSError, and the operator can interrupt the scan, between two    *)
(* lines or in the middle of one.                                          *)

\* the states process_work can be in when KeyboardInterrupt arrives inside it
process_work_partial(st, record) ==
    LET counted == [st EXCEPT !.stats.works_processed = @ + 1]
        verdict == should_keep_work(counted.stats, record.data)
        filtered == [counted EXCEPT !.stats = verdict.stats]
    IN  {counted, filtered} \cup
        IF ~verdict.keep THEN {}
        ELSE UNION {LET work_data == extract_work_data(record, genres)
                        kept == [filtered EXCEPT !.kept_works = @ \cup {record.key}]
                        written == [kept EXCEPT !.books = write_work_to_csv(@, work_data)]
                        rows == write_work_authors_to_csv(<<>>, work_data)
                    IN  IF IsExc(work_data) THEN {}
                        ELSE IF st.disk_full THEN {kept}
                        ELSE {kept, written} \cup
                             {[written EXCEPT !.book_authors = @ \o SubSeq(rows, 1, k)]
                                 : k \in 1..Len(rows)}
                    : genres \in genre_lists(record.data)}

\* the same for process_edition and process_author: the counter is incremented,
\* then the key is recorded, then the row is written; the states the call
\* returns in stand for an interrupt right after it
process_edition_partial(st, record) ==
    LET counted == [st EXCEPT !.stats.editions_processed = @ + 1]
        kept == [counted EXCEPT !.kept_editions = @ \cup {record.key}]
        outcomes == process_edition(st, record)
        returned == {o \in outcomes : o.exc = ""}
    IN  {counted} \cup {o.st : o \in returned} \cup
        IF \E o \in outcomes : record.key \in o.st.kept_editions \ st.kept_editions
                                 \/ o.exc = "OSError"
                                 \/ Len(o.st.editions) > Len(st.editions)
        THEN {kept} \cup {[kept EXCEPT !.editions = o.st.editions] : o \in returned}
        ELSE {}

process_author_partial(st, record) ==
    LET counted == [st EXCEPT !.stats.authors_processed = @ + 1]
        kept == [counted EXCEPT !.kept_authors = @ \cup {record.key}]
        outcomes == process_author(st, record)
        returned == {o \in outcomes : o.exc = ""}
    IN  {counted} \cup {o.st : o \in returned} \cup
        IF \E o \in outcomes : record.key \in o.st.kept_authors \ st.kept_authors
                                 \/ o.exc = "OSError"
                                 \/ Len(o.st.authors) > Len(st.authors)
        THEN {kept} \cup {[kept EXCEPT !.authors = o.st.authors] : o \in returned}
        ELSE {}

\* the states the loop body can be in when KeyboardInterrupt arrives inside it
interrupted_line(st, parts) ==
    LET numbered == [st EXCEPT !.stats.total_lines_processed = @ + 1]
        parsed == parse_line(parts)
    IN  {numbered} \cup
        IF parsed.kind # "record" THEN {}
        ELSE IF parsed.record.type = "/type/work"
             THEN process_work_partial(numbered, parsed.record)
        ELSE IF parsed.record.type = "/type/edition"
             THEN process_edition_partial(numbered, parsed.record)
        ELSE process_author_partial(numbered, parsed.record)

\* the disk fills up
DiskFills ==
    /\ pc = "scan"
    /\ ~disk_full
    /\ disk_full' = TRUE
    /\ UNCHANGED <<stats, kept_works, kept_editions, kept_authors, books, editions,
                   authors, book_authors, line, pc, rerun, orphaned, probe,
                   open_files, reported>>

\* the disk fills while the rows of an accepted work are written: the row of
\* the work and some of its author rows are written, the next writerow raises
\* and the except clause of the loop counts the error
DiskFillsDuring(parts) ==
    /\ pc = "scan"
    /\ ~disk_full
    /\ stats.total_lines_processed < MaxLines
    /\ parse_line(parts).kind = "record"
    /\ parse_line(parts).record.type = "/type/work"
    /\ LET numbered == [State EXCEPT !.stats.total_lines_processed = @ + 1]
           record == parse_line(parts).record
       IN  \E st \in process_work_partial(numbered, record) :
             /\ \E o \in process_work(numbered, record) :
                   /\ o.exc = ""
                   /\ Len(st.books) > Len(books)
                   /\ st.books = o.st.books
                   /\ Len(st.book_authors) < Len(o.st.book_authors)
             /\ stats' = CountError(st.stats, parse_error("OSError"))
             /\ kept_works' = st.kept_works
             /\ books' = st.books
             /\ book_authors' = st.book_authors
    /\ line' = parts
    /\ disk_full' = TRUE
    /\ orphaned' = orphaned \cup Orphans(parts)
    /\ UNCHANGED <<kept_editions, kept_authors, editions, authors, pc, rerun, probe,
                   open_files, reported>>

\* space is freed on the disk: the writes succeed again
DiskFrees ==
    /\ pc = "scan"
    /\ disk_full
    /\ disk_full' = FALSE
    /\ UNCHANGED <<stats, kept_works, kept_editions, kept_authors, books, editions,
                   authors, book_authors, line, pc, rerun, orphaned, probe,
                   open_files, reported>>

\* KeyboardInterrupt between two lines: the handler prints, then the finally block runs
Interrupt ==
    /\ pc = "scan"
    /\ pc' = "interrupted"
    /\ Finally
    /\ UNCHANGED <<stats, kept_works, kept_editions, kept_authors, books, editions,
                   authors, book_authors, line, rerun, orphaned, probe, disk_full>>

\* KeyboardInterrupt while a line is being processed
InterruptDuring(parts) ==
    /\ pc = "scan"
    /\ stats.total_lines_processed < MaxLines
    /\ \E st \in interrupted_line(State, parts) :
        /\ stats' = st.stats
        /\ kept_works' = st.kept_works
        /\ kept_editions' = st.kept_editions
        /\ kept_authors' = st.kept_authors
        /\ books' = st.books
        /\ editions' = st.editions
        /\ authors' = st.authors
        /\ book_authors' = st.book_authors
    /\ line' = parts
    /\ pc' = "interrupted"
    /\ Finally
    /\ UNCHANGED <<rerun, orphaned, probe, disk_full>>

\* the lines of the files that are read under faults
FaultLines ==
    {<<"/type/work", OL1W, <<"1">>, TS>> \o OnePiece(good_work),
     <<"/type/work", OL2W, <<"1">>, TS>>
         \o OnePiece(With(good_work, "authors",
                          PyList(<<author_role(OL1A), PyDict([key |-> PyStr(OL1A)])>>))),
     <<"/type/edition", OL1M, <<"1">>, TS>> \o OnePiece(good_edition),
     <<"/type/author", OL1A, <<"1">>, TS>> \o OnePiece(good_author),
     <<"/type/author", OL1A, <<"x">>, TS>> \o OnePiece(good_author),
     <<"/type/work", OL1W, <<"1">>>>}

NextFaults ==
    \/ DiskFrees
    \/ \E parts \in FaultLines : ReadLine(parts)
    \/ \E parts \in FaultLines : InterruptDuring(parts)
    \/ DiskFills
    \/ \E parts \in FaultLines : DiskFillsDuring(parts)
    \/ Interrupt
    \/ EndOfFile

SpecFaults == Init /\ [][NextFaults]_vars

----------------------------------------------------------------------------
(* The run over files with records on which a filter raises: a title, a    *)
(* name or a page count of the wrong type.                                 *)

FilterErrorLines ==
    {<<"/type/work", OL1W, <<"1">>, TS>> \o OnePiece(good_work),
     <<"/type/work", OL2W, <<"1">>, TS>> \o OnePiece(With(good_work, "title", PyInt(7))),
     <<"/type/edition", OL1M, <<"1">>, TS>> \o OnePiece(good_edition),
     <<"/type/edition", OL1M, <<"2">>, TS>>
         \o OnePiece(With(good_edition, "number_of_pages", PyStr(<<"x">>))),
     <<"/type/author", OL1A, <<"1">>, TS>> \o OnePiece(good_author),
     <<"/type/author", OL1A, <<"2">>, TS>> \o OnePiece(With(good_author, "name", PyInt(7)))}

NextFilterErrors ==
    \/ \E parts \in FilterErrorLines : ReadLine(parts)
    \/ EndOfFile

SpecFilterErrors == Init /\ [][NextFilterErrors]_vars

----------------------------------------------------------------------------
(* extract_genres on its own: a subject list and a permutation of it.      *)

\* the length of the longest subject list classified
MaxSubjects == 2

Subjects ==
    {PyStr(<<"S","c","i","e","n","c","e">>),
     PyStr(<<"f","i","c","t","i","o","n">>),
     PyStr(<<"L","o","v","e">>),
     PyStr(<<"s","t","o","r","y">>),
     PyStr(<<"P","o","e","t","r","y">>),
     PyStr(<<"T","r","a","v","e","l">>)}

SubjectLists == UNION {[1..n -> Subjects] : n \in 0..MaxSubjects}

Reorderings(n) == {q \in [1..n -> 1..n] : \A i, j \in 1..n : i # j => q[i] # q[j]}

GenreProbes ==
    UNION {{[op |-> "extract_genres",
             subjects |-> PyList(s),
             permuted |-> PyList([i \in 1..Len(s) |-> s[q[i]]]),
             done |-> FALSE,
             genres |-> PySet({}),
             genres_permuted |-> PySet({})] : q \in Reorderings(Len(s))}
           : s \in SubjectLists}

InitGenres == InitRun /\ probe \in GenreProbes

Classify ==
    /\ probe.op = "extract_genres"
    /\ ~probe.done
    /\ probe' = [probe EXCEPT !.done = TRUE,
                              !.genres = extract_genres(probe.subjects),
                              !.genres_permuted = extract_genres(probe.permuted)]
    /\ UNCHANGED <<stats, kept_works, kept_editions, kept_authors, books, editions,
                   authors, book_authors, line, pc, rerun, orphaned,
                   disk_full, open_files, reported>>

SpecGenres == InitGenres /\ [][Classify]_vars

----------------------------------------------------------------------------
(* parse_line on its own.                                                  *)

ParseTypes == relevant_types \cup {"/type/redirect"}
ParseRevisions == {<<"1">>, <<"1","2">>, <<"-","3">>, <<"x">>, <<"1",".","0">>, <<>>}
ParseJson ==
    {OnePiece(good_author), TwoPieces(good_author), OnePiece(Exc("JSONDecodeError"))}

\* a line of the dump, whole or cut short after any of its fields
ParseInputs ==
    UNION {{SubSeq(<<ty, OL1A, rev, TS>> \o js, 1, n) : n \in 1..(4 + Len(js))} :
        <<ty, rev, js>> \in ParseTypes \X ParseRevisions \X ParseJson}

InitParse ==
    InitRun /\ probe \in {[op |-> "parse_line", parts |-> l, done |-> FALSE,
                           result |-> [kind |-> "none"]] : l \in ParseInputs}

Parse ==
    /\ probe.op = "parse_line"
    /\ ~probe.done
    /\ probe' = [probe EXCEPT !.done = TRUE, !.result = parse_line(probe.parts)]
    /\ UNCHANGED <<stats, kept_works, kept_editions, kept_authors, books, editions,
                   authors, book_authors, line, pc, rerun, orphaned,
                   disk_full, open_files, reported>>

SpecParse == InitParse /\ [][Parse]_vars

----------------------------------------------------------------------------
(* should_keep_work on its own: a payload, and the same payload with       *)
(* other identifiers, subjects and covers.                                 *)

\* the fields `fields` gives a value are set, the others are kept
Overlay(v, fields) ==
    PyDict([k \in DOMAIN v.d \cup DOMAIN fields |->
               IF k \in DOMAIN fields THEN fields[k] ELSE v.d[k]])

\* the fields of a record whose value is not None
Present(fields) == [k \in {f \in DOMAIN fields : fields[f] # PyNone} |-> fields[k]]

FirstPublishDates ==
    {PyNone, PyStr(<<>>), PyStr(<<"1","9","4","9">>), PyStr(<<"1","9","5","0">>),
     PyStr(<<"1","7","9","9">>), PyStr(<<"M","a","r","c","h">>),
     PyStr(<<"1","2","3","4","5">>), PyInt(1949)}

WorkBases ==
    {Overlay(good_work, Present([title |-> t, authors |-> a, first_publish_date |-> d])) :
        t \in {good_work.d.title, PyStr(<<"a","b">>)},
        a \in {good_work.d.authors, PyList(<<>>)},
        d \in FirstPublishDates}

PopularitySignals ==
    {Present([identifiers |-> i, subjects |-> sj, covers |-> c]) :
        i \in {PyNone, PyDict([goodreads |-> PyList(<<PyStr(<<"1">>)>>)])},
        sj \in {PyNone, PyList(<<PyStr(<<"H","i","s","t","o","r","y">>),
                                  PyStr(<<"A","r","t">>),
                                  PyStr(<<"T","r","a","v","e","l">>)>>)},
        c \in {PyNone, PyList(<<PyInt(1), PyInt(2)>>)}}

WorkFilterProbes ==
    {[op |-> "should_keep_work",
      work_data |-> Overlay(base, p),
      variant |-> Overlay(base, q),
      done |-> FALSE, verdict |-> "", verdict_variant |-> ""] :
        base \in WorkBases, p \in PopularitySignals, q \in PopularitySignals}

InitWorkFilter == InitRun /\ probe \in WorkFilterProbes

FilterWork ==
    /\ probe.op = "should_keep_work"
    /\ ~probe.done
    /\ probe' = [probe EXCEPT !.done = TRUE,
                              !.verdict = should_keep_work_try(probe.work_data),
                              !.verdict_variant = should_keep_work_try(probe.variant)]
    /\ UNCHANGED <<stats, kept_works, kept_editions, kept_authors, books, editions,
                   authors, book_authors, line, pc, rerun, orphaned,
                   disk_full, open_files, reported>>

SpecWorkFilter == InitWorkFilter /\ [][FilterWork]_vars

----------------------------------------------------------------------------
(* should_keep_edition on its own.                                         *)

PageCounts ==
    {PyNone, PyInt(0), PyInt(1), PyInt(29), PyInt(30), PyInt(1500), PyInt(1501), PyInt(2000)}

L_languages_fre == <<"/","l","a","n","g","u","a","g","e","s","/","f","r","e">>

LanguageLists ==
    {PyNone,
     PyList(<<>>),
     PyList(<<PyDict([key |-> PyStr(L_languages_eng)])>>),
     PyList(<<PyStr(L_eng)>>),
     PyList(<<PyDict([key |-> PyStr(L_languages_fre)])>>),
     PyList(<<PyStr(<<"f","r","e">>)>>),
     PyList(<<PyDict([key |-> PyStr(L_languages_fre)]), PyDict([key |-> PyStr(L_languages_eng)])>>),
     PyList(<<PyDict([key |-> PyStr(<<"/","o","l">> \o L_languages_eng)])>>),
     PyList(<<PyStr(L_languages_eng)>>),
     PyList(<<PyDict([name |-> PyStr(L_eng)])>>)}

EditionFilterProbes ==
    {[op |-> "should_keep_edition",
      edition_data |-> Overlay(Without(good_edition, "languages"),
                               Present([number_of_pages |-> n, languages |-> l,
                                        publish_date |-> d, isbn_10 |-> i])),
      done |-> FALSE, verdict |-> ""] :
        n \in PageCounts, l \in LanguageLists,
        d \in {PyStr(<<"1","9","9","0">>), PyStr(<<"1","9","3","9">>)},
        i \in {PyNone, PyList(<<PyStr(<<"0","4","4","1","0","1","3","5","9","7">>)>>)}}

InitEditionFilter == InitRun /\ probe \in EditionFilterProbes

FilterEdition ==
    /\ probe.op = "should_keep_edition"
    /\ ~probe.done
    /\ probe' = [probe EXCEPT !.done = TRUE,
                              !.verdict = should_keep_edition_try(probe.edition_data)]
    /\ UNCHANGED <<stats, kept_works, kept_editions, kept_authors, books, editions,
                   authors, book_authors, line, pc, rerun, orphaned,
                   disk_full, open_files, reported>>

SpecEditionFilter == InitEditionFilter /\ [][FilterEdition]_vars

----------------------------------------------------------------------------
(* extract_year on its own, over the strings of a small alphabet.          *)

\* the length of the longest date string
MaxDateLen == 5

DateChars == {"1", "9", "0", "-"}

DateStrings == UNION {[1..n -> DateChars] : n \in 0..MaxDateLen}

InitYear ==
    InitRun /\ probe \in {[op |-> "extract_year", date_string |-> PyStr(d),
                            done |-> FALSE, year |-> PyNone] : d \in DateStrings}

ExtractYear ==
    /\ probe.op = "extract_year"
    /\ ~probe.done
    /\ probe' = [probe EXCEPT !.done = TRUE, !.year = extract_year(probe.date_string)]
    /\ UNCHANGED <<stats, kept_works, kept_editions, kept_authors, books, editions,
                   authors, book_authors, line, pc, rerun, orphaned,
                   disk_full, open_files, reported>>

SpecYear == InitYear /\ [][ExtractYear]_vars

----------------------------------------------------------------------------
(* The verifier's validate_relationships on its own, over the key sets it  *)
(* builds from the loaded books and authors and the loaded relationship    *)
(* rows.                                                                   *)

\* the number of relationship rows of the longest book_authors file loaded
MaxRelations == 2

OL2A == <<"O","L","2","A">>

\* the loop over book_authors without its elif branch
RECURSIVE validate_relationships_works_only(_, _, _)
validate_relationships_works_only(book_keys, author_keys, rels) ==
    IF rels = <<>> THEN [valid_relationships |-> 0, relationship_issues |-> <<>>]
    ELSE LET rel == rels[Len(rels)]
             before == validate_relationships_works_only(
                           book_keys, author_keys, SubSeq(rels, 1, Len(rels) - 1))
         IN  IF rel.openlibrary_work_key \notin book_keys
             THEN [before EXCEPT !.relationship_issues =
                      Append(@, [missing |-> "Book key", key |-> rel.openlibrary_work_key])]
             ELSE [before EXCEPT !.valid_relationships = @ + 1]

\* the loop over rels: the count of valid rows and the list of issues
RECURSIVE validate_relationships(_, _, _)
validate_relationships(book_keys, author_keys, rels) ==
    IF rels = <<>> THEN [valid_relationships |-> 0, relationship_issues |-> <<>>]
    ELSE LET rel == rels[Len(rels)]
             before == validate_relationships(
                           book_keys, author_keys, SubSeq(rels, 1, Len(rels) - 1))
         IN  IF rel.openlibrary_work_key \notin book_keys
             THEN [before EXCEPT !.relationship_issues =
                      Append(@, [missing |-> "Book key", key |-> rel.openlibrary_work_key])]
             ELSE IF rel.openlibrary_author_key \notin author_keys
             THEN [before EXCEPT !.relationship_issues =
                      Append(@, [missing |-> "Author key", key |-> rel.openlibrary_author_key])]
             ELSE [before EXCEPT !.valid_relationships = @ + 1]

\* the orphan count taken from the set edition_work_keys instead of the rows
orphaned_editions_by_key(book_keys, eds) ==
    Cardinality({eds[i].openlibrary_work_key : i \in 1..Len(eds)} \ book_keys)

\* the loop over editions: the count of rows whose work is not loaded
RECURSIVE orphaned_editions(_, _)
orphaned_editions(book_keys, eds) ==
    IF eds = <<>> THEN 0
    ELSE LET edition == eds[Len(eds)]
             before == orphaned_editions(book_keys, SubSeq(eds, 1, Len(eds) - 1))
         IN  IF edition.openlibrary_work_key \notin book_keys
             THEN before + 1
             ELSE before

RelationRows ==
    [openlibrary_work_key : {OL1W, OL2W}, openlibrary_author_key : {OL1A, OL2A}]

VerifyProbes ==
    {[op |-> "validate_relationships",
      book_keys |-> bk, author_keys |-> ak, book_authors |-> rows,
      editions |-> eds,
      done |-> FALSE,
      result |-> [valid_relationships |-> 0, relationship_issues |-> <<>>],
      orphaned_editions |-> 0, linked_editions |-> 0] :
        bk \in SUBSET {OL1W, OL2W}, ak \in SUBSET {OL1A, OL2A},
        rows \in UNION {[1..n -> RelationRows] : n \in 0..MaxRelations},
        eds \in UNION {[1..n -> [openlibrary_work_key : {OL1W, OL2W}]] :
                          n \in 0..MaxRelations}}

InitVerify == InitRun /\ probe \in VerifyProbes

Validate ==
    /\ probe.op = "validate_relationships"
    /\ ~probe.done
    /\ probe' = [probe EXCEPT
                    !.done = TRUE,
                    !.result = validate_relationships(
                                   probe.book_keys, probe.author_keys, probe.book_authors),
                    !.orphaned_editions = orphaned_editions(probe.book_keys, probe.editions),
                    !.linked_editions =
                        Len(probe.editions)
                           - orphaned_editions(probe.book_keys, probe.editions)]
    /\ UNCHANGED <<stats, kept_works, kept_editions, kept_authors, books, editions,
                   authors, book_authors, line, pc, rerun, orphaned,
                   disk_full, open_files, reported>>

SpecVerify == InitVerify /\ [][Validate]_vars

----------------------------------------------------------------------------
(* The properties of the pipeline, and the states that exercise them.      *)

\* the column of a header that carries `name`
Col(header, name) == CHOOSE i \in 1..Len(header) : header[i] = name

\* the cell of a row of the sink with this header
Cell(header, row, name) == row[Col(header, name)]

\* the rows a step appends to a sink
Appended(old, new) == SubSeq(new, Len(old) + 1, Len(new))

\* the rows of a sink below its header
DataRows(sink) == Tail(sink)

\* this step is one pass of the loop of process_file
LineWasRead == stats'.total_lines_processed = stats.total_lines_processed + 1

\* C1: every row appended to the editions sink carries the work key that is
\* the first entry of the works list of the line being processed, and that
\* key was in kept_works before the line was processed.
C1_EditionRowsNameAcceptedWork ==
    [][\A i \in 1..Len(Appended(editions, editions')) :
          LET work_key == Cell(editions_header, Appended(editions, editions')[i],
                               "openlibrary_work_key")
          IN  /\ WorkRef(line') = PyStr(work_key)
              /\ work_key \in kept_works]_vars

\* an edition was written after its work had been accepted
C1_EditionWritten ==
    /\ Len(editions) > 1
    /\ line # <<>>
    /\ line[1] = "/type/edition"
    /\ WorkRef(line).t = "str"
    /\ WorkRef(line).s \in kept_works

\* C2: a step that processes an edition line whose work reference is not in
\* kept_works writes nothing to the editions sink and adds nothing to
\* kept_editions; and a step only ever appends to the sink, and only a row of
\* the edition line being processed, so no row is written for an earlier line.
C2_DroppedEditionNeverWritten ==
    [][/\ (/\ LineWasRead
           /\ WorkRef(line').t = "str"
           /\ WorkRef(line').s \notin kept_works)
          => (editions' = editions /\ kept_editions' = kept_editions)
       /\ Len(editions') >= Len(editions)
       /\ SubSeq(editions', 1, Len(editions)) = editions
       /\ Len(Appended(editions, editions')) <= 1
       /\ \A i \in 1..Len(Appended(editions, editions')) :
             /\ LineWasRead
             /\ line'[1] = "/type/edition"
             /\ Cell(editions_header, Appended(editions, editions')[i],
                     "openlibrary_edition_key") = line'[2]]_vars

\* a work was accepted after an edition naming it had been dropped, and the
\* editions sink still has no row for that work
C2_WorkArrivedAfterDrop ==
    \E W \in orphaned :
        /\ W \in kept_works
        /\ \A i \in 1..Len(DataRows(editions)) :
              Cell(editions_header, DataRows(editions)[i], "openlibrary_work_key") # W

\* the markers a title must not contain
DenylistMarkers ==
    {<<"T","E","S","T">>,
     <<"D","U","P","L","I","C","A","T","E">>,
     <<"D","E","L","E","T","E">>,
     <<"[","M","E","R","G","E","D","]">>,
     <<"P","L","A","C","E","H","O","L","D","E","R">>,
     <<"T","E","M","P">>,
     <<"u00EF","u00BF","u00BD">>}

\* text contains the marker, compared without regard to case
ContainsAnyCase(text, marker) == Contains(lower(text), lower(marker))

\* C3: every row of the books sink has a title of trimmed length >= 3, a
\* description of trimmed length >= 50, and a title that contains none of the
\* denylist markers, compared case-insensitively.
C3_WorkRowsPassTitleAndDescriptionRules ==
    \A i \in 1..Len(DataRows(books)) :
        LET title == Cell(books_header, DataRows(books)[i], "title")
            description == Cell(books_header, DataRows(books)[i], "description")
        IN  /\ Len(strip(title)) >= 3
            /\ Len(strip(description)) >= 50
            /\ \A marker \in DenylistMarkers : ~ContainsAnyCase(title, marker)

\* the key an entry of a work's authors list refers to
RefKey(ref) ==
    IF "author" \in DOMAIN ref.d THEN ref.d["author"].d["key"].s ELSE ref.d["key"].s

\* C4: a step that accepts a work appends to the book_authors sink one row
\* (work key, author key, "author") per entry of the authors list of the
\* line, in list order, and at least one.
C4_OneWorkAuthorRowPerReference ==
    [][Len(books') > Len(books) =>
          LET refs == Get(parse_line(line').record.data, "authors", PyList(<<>>)).xs
              rows == Appended(book_authors, book_authors')
          IN  /\ Len(rows) >= 1
              /\ Len(rows) = Len(refs)
              /\ \A i \in 1..Len(rows) :
                    rows[i] = <<line'[2], RefKey(refs[i]), <<"a","u","t","h","o","r">>>>]_vars

\* C5: every row of the editions sink has a non-empty isbn_10 or isbn_13
\* cell, and a publish_year cell that is present and at least 1940.
C5_EditionRowsHaveIsbnAndYear ==
    \A i \in 1..Len(DataRows(editions)) :
        LET row == DataRows(editions)[i]
            publish_year == Cell(editions_header, row, "publish_year")
        IN  /\ \/ Cell(editions_header, row, "isbn_10") # <<>>
               \/ Cell(editions_header, row, "isbn_13") # <<>>
            /\ publish_year # <<>>
            /\ \A j \in 1..Len(publish_year) : IsDigit(publish_year[j])
            /\ DigitsValue(publish_year) >= 1940

\* the names an author must not carry
AuthorDenylist ==
    {<<"T","E","S","T">>,
     <<"D","U","P","L","I","C","A","T","E">>,
     <<"D","E","L","E","T","E">>,
     <<"U","N","K","N","O","W","N">>}

\* the name passes the author rule: trimmed length >= 2, no denylisted word
NameAllowed(name) ==
    /\ Len(strip(name)) >= 2
    /\ \A word \in AuthorDenylist : ~ContainsAnyCase(name, word)

\* the line is an author record whose name fails the author rule
AuthorFailsRule(parts) ==
    LET parsed == parse_line(parts)
    IN  /\ parsed.kind = "record"
        /\ parsed.record.type = "/type/author"
        /\ ~NameAllowed(Get(parsed.record.data, "name", PyStr(<<>>)).s)

C7_GenresIgnoreSubjectOrder ==
    (probe.op = "extract_genres" /\ probe.done) => probe.genres = probe.genres_permuted

\* a sink with the cell under created_at blanked in every row
WithoutCreatedAt(header, sink) ==
    [i \in 1..Len(sink) |->
        [j \in 1..Len(sink[i]) |-> IF header[j] = "created_at" THEN <<>> ELSE sink[i][j]]]

\* C8: two runs over the same file leave the same rows in each of the four
\* sinks, the created_at cells aside.
C8_TwoRunsWriteSameRows ==
    pc = "done" =>
        /\ WithoutCreatedAt(books_header, books) = WithoutCreatedAt(books_header, rerun.books)
        /\ WithoutCreatedAt(editions_header, editions)
              = WithoutCreatedAt(editions_header, rerun.editions)
        /\ WithoutCreatedAt(authors_header, authors)
              = WithoutCreatedAt(authors_header, rerun.authors)
        /\ book_authors = rerun.book_authors

\* C9: parse_line returns a record or None for every line; it never raises.
C9_ParseLineNeverRaises ==
    (probe.op = "parse_line" /\ probe.done) => probe.result.kind \in {"record", "none"}

\* the line has fewer than the four leading fields and a payload
StructurallyShort(parts) == Len(parts) < 5

\* the line is of a relevant type and its payload does not decode
PayloadUndecodable(parts) ==
    /\ Len(parts) >= 5
    /\ parts[1] \in relevant_types
    /\ IsExc(json_loads(tab_join(SubSeq(parts, 5, Len(parts)))))

\* C10: a step that skips a line because it is structurally short or because
\* its payload does not decode increments one of the error counters.
C10_SkippedLinesAreCounted ==
    [][(LineWasRead /\ (StructurallyShort(line') \/ PayloadUndecodable(line')))
          => \E kind \in ErrorKinds : stats'.errors[kind] = stats.errors[kind] + 1]_vars

\* the line cannot be parsed: it is short, its payload does not decode, or its
\* revision is not an integer
Malformed(parts) ==
    \/ StructurallyShort(parts)
    \/ PayloadUndecodable(parts)
    \/ /\ Len(parts) >= 5
       /\ parts[1] \in relevant_types
       /\ int(parts[3]) = PyNone

C12_WriteFailureEndsRun ==
    [][(/\ LineWasRead
        /\ disk_full
        /\ stats'.errors["parse_error_OSError"] > stats.errors["parse_error_OSError"])
          => (pc' # "scan" /\ open_files' = {})]_vars

\* old is a prefix of new
IsPrefix(old, new) == Len(old) <= Len(new) /\ SubSeq(new, 1, Len(old)) = old

\* C13: the step that leaves the scan, at the end of the file or on an
\* interrupt, closes all four sinks and reports the statistics, and the rows
\* written before it are still in the sinks; the statistics are never
\* reported while a sink is open.
C13_SinksClosedWhenScanEnds ==
    [][/\ (pc = "scan" /\ pc' # "scan")
          => /\ pc' \in {"done", "interrupted"}
             /\ open_files' = {}
             /\ reported'
             /\ IsPrefix(books, books')
             /\ IsPrefix(editions, editions')
             /\ IsPrefix(authors, authors')
             /\ IsPrefix(book_authors, book_authors')
       /\ reported' => open_files' = {}]_vars

\* the operator interrupted process_work after it had written the work's row
C13_InterruptedAfterWrite ==
    /\ pc = "interrupted"
    /\ Len(books) = 2
    /\ stats.works_kept = 0
    /\ open_files = {}
    /\ reported

\* C15: kept_works never loses a key, and an edition line that passes the
\* edition filter and names a key of kept_works is written, whatever was
\* rejected since the key was accepted.
C15_KeptWorksOnlyGrows ==
    [][/\ kept_works \subseteq kept_works'
       /\ (/\ LineWasRead
           /\ WorkRef(line').t = "str"
           /\ WorkRef(line').s \in kept_works
           /\ should_keep_edition_try(parse_line(line').record.data) = "keep")
          => Len(editions') = Len(editions) + 1]_vars

\* the line last read is a work record that the filter rejected, and its key
\* had been accepted before
C15_RejectedAfterAccepted ==
    /\ line # <<>>
    /\ parse_line(line).kind = "record"
    /\ line[1] = "/type/work"
    /\ should_keep_work_try(parse_line(line).record.data) # "keep"
    /\ line[2] \in kept_works
    /\ stats.works_processed = 2

\* the relationship rows whose two keys are both loaded
ResolvedRows(p) ==
    {i \in 1..Len(p.book_authors) :
        /\ p.book_authors[i].openlibrary_work_key \in p.book_keys
        /\ p.book_authors[i].openlibrary_author_key \in p.author_keys}

\* C14: validate_relationships counts as valid exactly the rows whose work key
\* and author key are both loaded and records one issue for each other row,
\* so valid and issues add up to the number of rows.
C14_RelationshipsValidOrDangling ==
    (probe.op = "validate_relationships" /\ probe.done)
        => /\ probe.result.valid_relationships = Cardinality(ResolvedRows(probe))
           /\ Len(probe.result.relationship_issues)
                 = Len(probe.book_authors) - Cardinality(ResolvedRows(probe))
           /\ probe.result.valid_relationships + Len(probe.result.relationship_issues)
                 = Len(probe.book_authors)

\* a row whose work is loaded and whose author is not was validated next to a
\* row that resolves
C14_DanglingAuthorCounted ==
    /\ probe.op = "validate_relationships"
    /\ probe.done
    /\ Len(probe.book_authors) = 2
    /\ Cardinality(ResolvedRows(probe)) = 1
    /\ \E i \in 1..2 :
          /\ probe.book_authors[i].openlibrary_work_key \in probe.book_keys
          /\ probe.book_authors[i].openlibrary_author_key \notin probe.author_keys
    /\ Len(probe.result.relationship_issues) = 1

\* the payload without its first-publish date
Undated(work_data) ==
    PyDict([k \in DOMAIN work_data.d \ {"first_publish_date"} |-> work_data.d[k]])

\* the payload has a first-publish date, and a year below 1950 is extracted from it
DatedBefore1950(work_data) ==
    /\ "first_publish_date" \in DOMAIN work_data.d
    /\ extract_year(work_data.d["first_publish_date"]) # PyNone
    /\ extract_year(work_data.d["first_publish_date"]).n < 1950

C17_PopularityNotEnforced ==
    (probe.op = "should_keep_work" /\ probe.done) => probe.verdict = probe.verdict_variant

\* a work without identifiers, subjects and covers was kept, as was the same
\* work with all three
C17_KeptWithoutSignals ==
    /\ probe.op = "should_keep_work"
    /\ probe.done
    /\ DOMAIN probe.work_data.d \cap {"identifiers", "subjects", "covers"} = {}
    /\ {"identifiers", "subjects", "covers"} \subseteq DOMAIN probe.variant.d
    /\ probe.verdict = "keep"
    /\ probe.verdict_variant = "keep"

\* C18: an edition with an integer page count is kept only if the count is
\* in [30, 1500], whatever the count, 0 included; with 2000 it is rejected.
C18_PageCountInRange ==
    (/\ probe.op = "should_keep_edition"
     /\ probe.done
     /\ "number_of_pages" \in DOMAIN probe.edition_data.d)
        => /\ probe.verdict = "keep"
                 => /\ 30 <= probe.edition_data.d["number_of_pages"].n
                    /\ probe.edition_data.d["number_of_pages"].n <= 1500
           /\ probe.edition_data.d["number_of_pages"].n = 2000 => probe.verdict # "keep"

\* the maximal runs of digits of s that are four digits long, by their first index
RunsOfFour(s) ==
    {i \in 1..(Len(s) - 3) :
        /\ \A j \in i..(i + 3) : IsDigit(s[j])
        /\ (i = 1 \/ ~IsDigit(s[i - 1]))
        /\ (i + 3 = Len(s) \/ ~IsDigit(s[i + 4]))}

\* the value of the first run of exactly four digits of s, -1 when there is none
FirstRunOfFour(s) ==
    IF RunsOfFour(s) = {} THEN -1
    ELSE LET i == CHOOSE h \in RunsOfFour(s) : \A k \in RunsOfFour(s) : h <= k
         IN  DigitsValue(SubSeq(s, i, i + 3))

\* C19: extract_year returns the value of the first run of exactly four
\* digits of the string when that is in [1800, 2030], and no year otherwise.
C19_YearIsFirstRunOfFourDigits ==
    (probe.op = "extract_year" /\ probe.done)
        => LET y == FirstRunOfFour(probe.date_string.s)
           IN  IF 1800 <= y /\ y <= 2030 THEN probe.year = PyInt(y) ELSE probe.year = PyNone

\* text ends with suffix
EndsWith(text, suffix) ==
    /\ Len(text) >= Len(suffix)
    /\ SubSeq(text, Len(text) - Len(suffix) + 1, Len(text)) = suffix

\* the entry of a language list is English: the literal "eng", or a key that
\* ends in /languages/eng
ResolvesToEnglish(entry) ==
    \/ entry = PyStr(<<"e","n","g">>)
    \/ /\ entry.t = "str"
       /\ EndsWith(entry.s, <<"/","l","a","n","g","u","a","g","e","s","/","e","n","g">>)
    \/ /\ entry.t = "dict"
       /\ "key" \in DOMAIN entry.d
       /\ entry.d["key"].t = "str"
       /\ EndsWith(entry.d["key"].s, <<"/","l","a","n","g","u","a","g","e","s","/","e","n","g">>)

\* C20: an edition with a non-empty language list is kept only if an entry of
\* the list is English; one with an empty list gets the verdict it gets
\* without the list.
C20_LanguageListNeedsEnglish ==
    (/\ probe.op = "should_keep_edition"
     /\ probe.done
     /\ "languages" \in DOMAIN probe.edition_data.d)
        => LET languages == probe.edition_data.d["languages"].xs
           IN  /\ (languages # <<>> /\ probe.verdict = "keep")
                     => \E i \in 1..Len(languages) : ResolvesToEnglish(languages[i])
               /\ languages = <<>>
                     => probe.verdict = should_keep_edition_try(
                            PyDict([k \in DOMAIN probe.edition_data.d \ {"languages"}
                                       |-> probe.edition_data.d[k]]))

\* an edition in French and English was kept
C20_KeptWithEnglishAmongLanguages ==
    /\ probe.op = "should_keep_edition"
    /\ probe.done
    /\ "languages" \in DOMAIN probe.edition_data.d
    /\ Len(probe.edition_data.d["languages"].xs) = 2
    /\ ~ResolvesToEnglish(probe.edition_data.d["languages"].xs[1])
    /\ ResolvesToEnglish(probe.edition_data.d["languages"].xs[2])
    /\ probe.verdict = "keep"

\* the rows a step appends to the sink are rows of the line being read: the
\* cell under `column` is the key of that line, which is of type `type`
RowsOfLineRead(header, old, new, column, type) ==
    \A i \in 1..Len(Appended(old, new)) :
        /\ LineWasRead
        /\ line'[1] = type
        /\ Cell(header, Appended(old, new)[i], column) = line'[2]

\* C21: each sink starts with its header row; a step only appends to a sink,
\* and only rows of the line it reads, so the rows are in stream order; and
\* every row of book_authors names a work whose row is already in books.
C21_SinksAppendOnlyInStreamOrder ==
    [][/\ books'[1] = books_header
       /\ editions'[1] = editions_header
       /\ authors'[1] = authors_header
       /\ book_authors'[1] = book_authors_header
       /\ IsPrefix(books, books')
       /\ IsPrefix(editions, editions')
       /\ IsPrefix(authors, authors')
       /\ IsPrefix(book_authors, book_authors')
       /\ RowsOfLineRead(books_header, books, books', "openlibrary_work_key", "/type/work")
       /\ RowsOfLineRead(editions_header, editions, editions',
                         "openlibrary_edition_key", "/type/edition")
       /\ RowsOfLineRead(authors_header, authors, authors', "openlibrary_key", "/type/author")
       /\ RowsOfLineRead(book_authors_header, book_authors, book_authors',
                         "openlibrary_work_key", "/type/work")
       /\ Len(Appended(books, books')) <= 1
       /\ \A i \in 1..Len(DataRows(book_authors')) :
             \E j \in 1..Len(DataRows(books')) :
                 Cell(books_header, DataRows(books')[j], "openlibrary_work_key")
                    = Cell(book_authors_header, DataRows(book_authors')[i],
                           "openlibrary_work_key")]_vars

\* two works were written one after the other, the second with two authors,
\* and an interrupt came before the second of its relationship rows
C21_SecondWorkPartlyWritten ==
    /\ pc = "interrupted"
    /\ Len(books) = 3
    /\ Cell(books_header, books[2], "openlibrary_work_key") = OL1W
    /\ Cell(books_header, books[3], "openlibrary_work_key") = OL2W
    /\ Len(book_authors) = 3
    /\ Cell(book_authors_header, book_authors[3], "openlibrary_work_key") = OL2W

\* the counter of the filter that decides the records of this type
FilterCounter(type) ==
    CASE type = "/type/work" -> "work_filter_error"
      [] type = "/type/edition" -> "edition_filter_error"
      [] type = "/type/author" -> "author_filter_error"

\* the filter of the line's record is reached and an exception is raised in it
FilterRaises(parts) ==
    LET parsed == parse_line(parts)
    IN  /\ parsed.kind = "record"
        /\ \/ /\ parsed.record.type = "/type/work"
              /\ should_keep_work_try(parsed.record.data) = "raise"
           \/ /\ parsed.record.type = "/type/edition"
              /\ WorkRef(parts).t = "str"
              /\ WorkRef(parts).s \in kept_works
              /\ should_keep_edition_try(parsed.record.data) = "raise"
           \/ /\ parsed.record.type = "/type/author"
              /\ should_keep_author_try(parsed.record.data) = "raise"

\* C22: a step that reads a line in whose filter an exception is raised
\* writes no row and registers no key, increments the counter of that filter
\* by one and leaves every other error counter, those of the driver
\* included, as it was.
C22_FilterErrorsRejectAndCount ==
    [][(LineWasRead /\ FilterRaises(line'))
          => /\ UNCHANGED <<kept_works, kept_editions, kept_authors,
                            books, editions, authors, book_authors>>
             /\ \A kind \in ErrorKinds :
                   stats'.errors[kind] =
                      IF kind = FilterCounter(line'[1])
                      THEN stats.errors[kind] + 1
                      ELSE stats.errors[kind]
             /\ pc' = "scan"]_vars

\* the edition filter and the author filter have each raised once
C22_TwoFiltersRaised ==
    /\ stats.errors["edition_filter_error"] = 1
    /\ stats.errors["author_filter_error"] = 1
    /\ Len(books) = 2
    /\ Len(editions) = 1
    /\ Len(authors) = 1

\* the edition rows whose work key is not among the loaded work keys
OrphanRows(p) ==
    {i \in 1..Len(p.editions) : p.editions[i].openlibrary_work_key \notin p.book_keys}

\* C23: with the four tables loaded, the orphaned-edition count of the
\* verifier is the number of edition rows whose work key is not a loaded work
\* key, and the linked count it prints and the orphaned count add up to the
\* number of edition rows.
C23_OrphanedEditionsCounted ==
    (probe.op = "validate_relationships" /\ probe.done)
        => /\ probe.orphaned_editions = Cardinality(OrphanRows(probe))
           /\ probe.linked_editions + probe.orphaned_editions = Len(probe.editions)

\* two edition rows of the same work were validated and the work is not
\* loaded, next to a work that is
C23_TwoOrphansOfOneWork ==
    /\ probe.op = "validate_relationships"
    /\ probe.done
    /\ probe.book_keys = {OL1W}
    /\ Len(probe.editions) = 2
    /\ probe.editions[1].openlibrary_work_key = OL2W
    /\ probe.editions[2].openlibrary_work_key = OL2W
    /\ probe.orphaned_editions = 2
    /\ probe.linked_editions = 0

\* C24: every key of kept_works has a row in the Work sink, and the work key
\* of every Edition row is the key of a Work row.
C24_KeptWorksAndEditionsHaveWorkRows ==
    /\ \A key \in kept_works :
          \E i \in 1..Len(DataRows(books)) :
             Cell(books_header, DataRows(books)[i], "openlibrary_work_key") = key
    /\ \A e \in 1..Len(DataRows(editions)) :
          \E i \in 1..Len(DataRows(books)) :
             Cell(books_header, DataRows(books)[i], "openlibrary_work_key")
                = Cell(editions_header, DataRows(editions)[e], "openlibrary_work_key")

\* C25: while the scan runs and when it has ended, no kept counter exceeds
\* its processed counter, the processed counters add up to at most the number
\* of lines, and each kept counter is the number of data rows of its sink.
C25_CountersMatchSinks ==
    (pc # "interrupted")
        => /\ stats.works_kept <= stats.works_processed
           /\ stats.editions_kept <= stats.editions_processed
           /\ stats.authors_kept <= stats.authors_processed
           /\ stats.works_processed + stats.editions_processed + stats.authors_processed
                 <= stats.total_lines_processed
           /\ stats.works_kept = Len(DataRows(books))
           /\ stats.editions_kept = Len(DataRows(editions))
           /\ stats.authors_kept = Len(DataRows(authors))

\* the line is one of those that yield no acceptance: the parser gives no
\* record for it (too few fields, a type that is not relevant, a payload or a
\* revision that does not decode), or the filter of its type does not keep
\* it, or it is an edition whose works list is empty or whose first work
\* reference is not in kept_works
YieldsNoAcceptance(parts) ==
    LET parsed == parse_line(parts)
        data == parsed.record.data
    IN  \/ parsed.kind # "record"
        \/ /\ parsed.kind = "record"
           /\ \/ /\ parsed.record.type = "/type/work"
                 /\ should_keep_work_try(data) # "keep"
              \/ /\ parsed.record.type = "/type/author"
                 /\ should_keep_author_try(data) # "keep"
              \/ /\ parsed.record.type = "/type/edition"
                 /\ data.t = "dict"
                 /\ \/ ~Truthy(Get(data, "works", PyList(<<>>)))
                    \/ /\ Get(data, "works", PyList(<<>>)).t = "list"
                       /\ WorkRef(parts).t \notin {"list", "dict"}
                       /\ \/ WorkRef(parts).t # "str"
                          \/ WorkRef(parts).s \notin kept_works
                          \/ should_keep_edition_try(data) # "keep"

\* C26: a step that reads a line yielding no acceptance leaves kept_works,
\* kept_editions, kept_authors and the four sinks as they were: of the
\* pipeline's data only the statistics change.
C26_UnacceptedLineOnlyCounts ==
    [][(LineWasRead /\ YieldsNoAcceptance(line'))
          => UNCHANGED <<kept_works, kept_editions, kept_authors,
                         books, editions, authors, book_authors>>]_vars

\* an edition with an empty works list was read after a work and an edition
\* of it had been accepted
C26_EditionWithoutWorksAfterAccepted ==
    /\ line # <<>>
    /\ line[1] = "/type/edition"
    /\ parse_line(line).kind = "record"
    /\ parse_line(line).record.data.t = "dict"
    /\ Get(parse_line(line).record.data, "works", PyNone) = PyList(<<>>)
    /\ stats.editions_processed = 2
    /\ stats.editions_kept = 1
    /\ kept_works = {OL1W}
    /\ kept_editions = {OL1M}
    /\ Len(editions) = 2

====
